---- MODULE Spec2Model ----
(***************************************************************************)
(* SerialView: the threaded serial connection manager                      *)
(* (src/src/core/serial_manager.py) and the main-window handlers that      *)
(* drive it (src/src/ui/main_window.py).                                   *)
(*                                                                         *)
(* Threads.  Everything but SerialWorker.run executes on the GUI thread,   *)
(* under the single Qt event loop started by app.exec() (src/main.py:41).  *)
(* A SerialWorker is a QThread; the signals it emits from run() reach the  *)
(* slots of its SerialConnection (a QObject of the GUI thread) as queued   *)
(* calls: they are posted to the GUI thread's event queue, in order, and   *)
(* run when the event loop next dispatches.                                *)
(***************************************************************************)
EXTENDS Integers, Sequences, FiniteSets, TLC

\* ---- bounds of the model ------------------------------------------------
MaxWorkers == 2      \* SerialWorker objects created in one run
MaxConns == 2        \* SerialConnection objects created in one run
MaxRx == 2           \* chunks the device delivers in one run
MaxRules == 2        \* rules in the engine's list
MaxTasks == 2        \* scheduled tasks in the engine's list
MaxSent == 2         \* ticks of one scheduled task that get to send
MaxModal == 1        \* error dialogs open at the same time
MaxClock == 2        \* readings of the clock, in units of 500 microseconds
MaxRecords == 2      \* events recorded in one session
MaxPayload == 5      \* bytes between the function code and the check bytes
MaxBuffer == 14      \* bytes handed to FrameDefinition.parse

Ports == {"COM1", "COM2"}
Bauds == {"9600", "115200"}
TxData == {"a", "b"}           \* payloads handed to send_data

\* bytes objects read from the device: sequences of byte values
AT == <<"A", "T", "CR", "LF">>          \* b'AT\r\n'
ATX == AT \o <<"X">>                    \* b'AT\r\nX'
RxData == {AT, ATX}
NoData == <<>>
NoTime == -1                   \* start_time = None
Delays == {0, 100}             \* delay_ms of a rule
NoWorker == 0                  \* self.worker = None
NoConn == 0                    \* current_connection = None

\* The callers of send_data; each runs as a slot or timer callback of the
\* GUI thread.  "ui" is the task that runs connect()/disconnect() and the
\* main-window handlers.
Callers == {"send_panel", "timer", "script"}
Tasks == Callers \cup {"ui"}

VARIABLES
    connections,   \* SerialPortManager.connections: set of <<port, connection>>
    conns,         \* the SerialConnection objects created so far
    workers,       \* the SerialWorker objects created so far
    queue,         \* GUI thread's event queue: queued signal deliveries
    main,          \* position of each GUI-thread task
    rxcount,       \* number of chunks read from the device so far
    delivered,     \* payloads emitted by SerialConnection.data_received
    sendres,       \* outcome of the latest send_data call
    createres,     \* outcome of the latest create_connection call
    window,        \* MainWindow: current_connection and the config it asked for
    auto_response_rules,   \* ScriptEngine.auto_response_rules
    scheduled_tasks,       \* ScriptEngine.scheduled_tasks, each with its QTimer
    current_recording,     \* ScriptEngine.current_recording
    saved_recordings,      \* ScriptEngine.saved_recordings: <<name, session>>
    frame_definitions,     \* CustomFrameAnalyzer.frame_definitions
    timers,        \* QTimer.singleShot callbacks that have not fired yet
    modal,         \* timer callbacks suspended in a modal dialog
    clock,         \* datetime.now(), in units of 500 microseconds
    last           \* what the latest automation or analyzer call did

\* The automation engine (src/src/plugins/script_engine.py), its timers and
\* the wall clock.
engine == <<auto_response_rules, scheduled_tasks, current_recording,
            saved_recordings, frame_definitions, timers, modal, last>>
auto == <<engine, clock>>

vars == <<connections, conns, workers, queue, main, rxcount, delivered,
          sendres, createres, window, auto>>

\* ---- objects --------------------------------------------------------------
SerialConfig(port, baudrate) == [port |-> port, baudrate |-> baudrate]

Configs == {SerialConfig(p, b) : p \in Ports, b \in Bauds}

\* SerialConnection.__init__; `balance` is the number of times the
\* connection has emitted `connected` less the number of times it has
\* emitted `disconnected`.
SerialConnection(config) ==
    [config |-> config, worker |-> NoWorker, is_connected |-> FALSE,
     balance |-> 0]

\* SerialWorker.__init__, with the connection its signals are wired to
\* (connect(), lines 164-166) and the bookkeeping of what happened to it:
\*   pc       position of run(): "start" (thread started, serial.Serial() not
\*            yet returned), "check" (at the while test), "poll" (in the loop
\*            body), "emit" (chunk read, data_received not yet emitted),
\*            "cleanup" (in the finally clause), "finished", "terminated"
\*   is_open  serial_port is set and serial_port.is_open
\*   end      why the loop was left
\*   terminate  disconnect() gave up waiting and called terminate()
\*   ret, announced   what connect() returned / whether it emitted connected
\*   error_emitted    run() has emitted error_occurred
\*   lost     _on_connection_lost has run for this worker
\*   diagnostic  disconnect() has reported that it gave up waiting for it
\*   chunk, data, ts  the chunk read and not yet emitted: its number, its
\*            bytes and its timestamp
SerialWorker(config, c) ==
    [conn |-> c, config |-> config, pc |-> "start", is_open |-> FALSE,
     stop_requested |-> FALSE, terminate |-> FALSE, chunk |-> 0,
     data |-> NoData, ts |-> 0,
     end |-> "none", ret |-> TRUE, announced |-> TRUE, error_emitted |-> FALSE,
     lost |-> FALSE, diagnostic |-> FALSE]

\* A worker whose thread has ended and that no connection refers to any more
\* is garbage: only its thread state, its port handle and the wiring of the
\* notifications it has already queued are kept.
Forget(worker) ==
    [SerialWorker(SerialConfig("", ""), worker.conn)
        EXCEPT !.pc = worker.pc, !.is_open = worker.is_open]

Collect(ws, cs) ==
    [w \in DOMAIN ws |->
        IF /\ ws[w].pc \in {"finished", "terminated"}
           /\ \A c \in DOMAIN cs : cs[c].worker # w
        THEN Forget(ws[w]) ELSE ws[w]]

IdleTask == [pc |-> "idle", c |-> NoConn, w |-> NoWorker, data |-> "",
             then |-> "none", config |-> SerialConfig("", "")]

\* QThread.isRunning()
isRunning(w) == workers[w].pc \notin {"finished", "terminated"}

\* The Qt event loop runs one slot or callback at a time.
MainIdleReentrant == TRUE
MainIdle == \A k \in Tasks : main[k].pc = "idle"

Event(kind, w, chunk) ==
    [kind |-> kind, w |-> w, chunk |-> chunk, data |-> NoData, ts |-> 0]

\* ---- the reader thread: SerialWorker.run ----------------------------------
Emit(w, kind) ==
    [Event(kind, w, workers[w].chunk)
        EXCEPT !.data = workers[w].data, !.ts = workers[w].ts]

\* serial.Serial(...) returns or raises (lines 62-83, 103-106).  A failed
\* open emits error_occurred and falls through to the finally clause.
WorkerOpened(w, ok) ==
    [workers EXCEPT ![w].pc = IF ok THEN "check" ELSE "cleanup",
                    ![w].is_open = ok,
                    ![w].end = IF ok THEN "none" ELSE "open_failed",
                    ![w].error_emitted = ~ok]

WorkerOpen(w, ok) ==
    /\ workers[w].pc = "start"
    /\ workers' = WorkerOpened(w, ok)
    /\ queue' = IF workers'[w].error_emitted
                THEN Append(queue, Event("error", w, 0)) ELSE queue
    /\ UNCHANGED <<connections, conns, main, rxcount, delivered, sendres,
                   createres, window, auto>>

\* while not self._stop_requested (line 85)
WorkerCheck(w) ==
    /\ workers[w].pc = "check"
    /\ workers' = IF workers[w].stop_requested
                  THEN [workers EXCEPT ![w].pc = "cleanup", ![w].end = "stopped"]
                  ELSE [workers EXCEPT ![w].pc = "poll"]
    /\ UNCHANGED <<connections, conns, queue, main, rxcount, delivered,
                   sendres, createres, window, auto>>

\* in_waiting == 0: msleep(10) and back to the while test (lines 91-93)
WorkerSleep(w) ==
    /\ workers[w].pc = "poll"
    /\ workers' = [workers EXCEPT ![w].pc = "check"]
    /\ UNCHANGED <<connections, conns, queue, main, rxcount, delivered,
                   sendres, createres, window, auto>>

\* in_waiting > 0: read everything buffered as one chunk (lines 87-89).
\* Chunks are numbered in the order the device hands them out; the
\* timestamp is datetime.now() at the read.
WorkerRead(w, d) ==
    /\ workers[w].pc = "poll"
    /\ rxcount < MaxRx
    /\ rxcount' = rxcount + 1
    /\ workers' = [workers EXCEPT ![w].pc = "emit", ![w].chunk = rxcount + 1,
                                  ![w].data = d, ![w].ts = clock]
    /\ UNCHANGED <<connections, conns, queue, main, delivered, sendres,
                   createres, window, auto>>

\* self.data_received.emit(data, timestamp) (line 90): a queued call
WorkerEmit(w) ==
    /\ workers[w].pc = "emit"
    /\ queue' = Append(queue, Emit(w, "data"))
    /\ workers' = [workers EXCEPT ![w].pc = "check", ![w].chunk = 0,
                                  ![w].data = NoData, ![w].ts = 0]
    /\ UNCHANGED <<connections, conns, main, rxcount, delivered, sendres,
                   createres, window, auto>>

\* except serial.SerialException (lines 95-98)
WorkerSerialError(w) ==
    /\ workers[w].pc = "poll"
    /\ queue' = queue \o <<Event("error", w, 0), Event("lost", w, 0)>>
    /\ workers' = [workers EXCEPT ![w].pc = "cleanup", ![w].end = "serial_error",
                                  ![w].error_emitted = TRUE]
    /\ UNCHANGED <<connections, conns, main, rxcount, delivered, sendres,
                   createres, window, auto>>

\* except Exception (lines 99-101): error_occurred only, no connection_lost
WorkerUnexpectedError(w) ==
    /\ workers[w].pc = "poll"
    /\ queue' = Append(queue, Event("error", w, 0))
    /\ workers' = [workers EXCEPT ![w].pc = "cleanup", ![w].end = "other_error",
                                  ![w].error_emitted = TRUE]
    /\ UNCHANGED <<connections, conns, main, rxcount, delivered, sendres,
                   createres, window, auto>>

\* finally: self._cleanup() (lines 107-108, 125-132), then run() returns
WorkerCleanup(w) ==
    /\ workers[w].pc = "cleanup"
    /\ workers' = Collect([workers EXCEPT ![w].pc = "finished",
                                           ![w].is_open = FALSE], conns)
    /\ UNCHANGED <<connections, conns, queue, main, rxcount, delivered,
                   sendres, createres, window, auto>>

\* QThread.terminate() takes effect: the thread is killed where it stands,
\* the finally clause does not run and the port handle stays as it is.
WorkerKilled(w) ==
    /\ workers[w].terminate
    /\ isRunning(w)
    /\ workers' = Collect([workers EXCEPT ![w].pc = "terminated",
                                           ![w].chunk = 0,
                                           ![w].data = NoData,
                                           ![w].ts = 0], conns)
    /\ UNCHANGED <<connections, conns, queue, main, rxcount, delivered,
                   sendres, createres, window, auto>>

\* ---- GUI thread: sequential code as functions of the program state --------
\* The part of the state that GUI-thread code reads and writes, with the
\* value the last call returned.
State ==
    [connections |-> connections, conns |-> conns, workers |-> workers,
     window |-> window, createres |-> createres, ret |-> TRUE]

Commit(st) ==
    /\ connections' = st.connections
    /\ conns' = st.conns
    /\ workers' = Collect(st.workers, st.conns)
    /\ window' = st.window
    /\ createres' = st.createres

\* Python dict: membership, lookup, assignment, deletion
HasKey(d, key) == \E e \in d : e[1] = key
Get(d, key) == (CHOOSE e \in d : e[1] = key)[2]
Put(d, key, value) == {e \in d : e[1] # key} \cup {<<key, value>>}
Del(d, key) == {e \in d : e[1] # key}

\* SerialConnection.connect (lines 155-177)
connect(st, c) ==
    IF st.conns[c].is_connected
    THEN [st EXCEPT !.ret = TRUE]
    ELSE [st EXCEPT !.workers = Append(@, SerialWorker(st.conns[c].config, c)),
                    !.conns[c].worker = Len(st.workers) + 1,
                    !.conns[c].is_connected = TRUE,
                    !.conns[c].balance = @ + 1,
                    !.ret = TRUE]

\* SerialConnection.disconnect, after the wait (lines 188-194): w is the
\* worker waited for.  A worker still running is terminated and dropped;
\* nothing is closed and nothing is reported on this path.
disconnect_end(st, c, w) ==
    [st EXCEPT !.workers[w].terminate = st.workers[w].pc \notin {"finished", "terminated"},
               !.conns[c].worker = NoWorker,
               !.conns[c].is_connected = FALSE,
               !.conns[c].balance = @ - 1]

\* SerialConnection._on_connection_lost (lines 216-220), run for the
\* notification of worker w
on_connection_lost_reconnects(st, c, w) ==
    connect([st EXCEPT !.conns[c].is_connected = FALSE,
                       !.conns[c].balance = @ - 1,
                       !.workers[w].lost = TRUE], c)
on_connection_lost(st, c, w) ==
    [st EXCEPT !.conns[c].is_connected = FALSE,
               !.conns[c].balance = @ - 1,
               !.workers[w].lost = TRUE]

\* SerialPortManager.create_connection (lines 257-269)
create_connection_always(st, config) ==
    [st EXCEPT !.conns = Append(@, SerialConnection(config)),
               !.connections = Put(@, config.port, Len(st.conns) + 1),
               !.ret = Len(st.conns) + 1]
create_connection(st, config) ==
    IF HasKey(st.connections, config.port)
    THEN [st EXCEPT !.ret = Get(st.connections, config.port)]
    ELSE [st EXCEPT !.conns = Append(@, SerialConnection(config)),
                    !.connections = Put(@, config.port, Len(st.conns) + 1),
                    !.ret = Len(st.conns) + 1]

\* A call of create_connection, with the record of what it was given, what
\* the registry held for the port before and after, and what it returned.
call_create_connection(st, config) ==
    LET made == create_connection(st, config)
    IN  [made EXCEPT !.createres =
            [config |-> config,
             existing |-> IF HasKey(st.connections, config.port)
                          THEN Get(st.connections, config.port) ELSE NoConn,
             after |-> Get(made.connections, config.port),
             ret |-> made.ret]]

\* MainWindow: current_connection = create_connection(config), then
\* current_connection.connect() (lines 269-279 and 338-348)
open_with(st, config) ==
    LET made == call_create_connection(st, config)
        n    == IF HasKey(made.window.wired, made.ret)
                THEN Get(made.window.wired, made.ret) ELSE 0
        cur  == [made EXCEPT !.window = [current_connection |-> made.ret,
                                         config |-> config,
                                         wired |-> Put(made.window.wired,
                                                       made.ret, n + 1)]]
    IN  connect(cur, made.ret)

\* What the handler that called disconnect() does once it has returned.
Continue(st, then, config) ==
    CASE then = "remove"    -> [st EXCEPT !.connections = Del(@, config.port)]
      [] then = "reconnect" -> open_with(st, config)
      [] OTHER              -> st

\* ---- GUI thread: the operations as steps ----------------------------------
Waiting(c, w, then, config) ==
    [pc |-> "wait", c |-> c, w |-> w, data |-> "", then |-> then,
     config |-> config]

\* SerialConnection.disconnect up to worker.wait(3000) (lines 179-186),
\* called by a handler that goes on with `then` once it has returned.
BeginDisconnect(c, then, config) ==
    IF ~conns[c].is_connected
    THEN /\ Commit(Continue(State, then, config))
         /\ UNCHANGED main
    ELSE IF conns[c].worker = NoWorker
    THEN /\ Commit(Continue([State EXCEPT !.conns[c].is_connected = FALSE,
                                          !.conns[c].balance = @ - 1],
                            then, config))
         /\ UNCHANGED main
    ELSE /\ workers' = [workers EXCEPT ![conns[c].worker].stop_requested = TRUE]
         /\ main' = [main EXCEPT !["ui"] = Waiting(c, conns[c].worker, then, config)]
         /\ UNCHANGED <<connections, conns, window, createres>>

\* worker.wait(3000) returns, because the thread has finished or because the
\* 3 s have passed with the thread still running; then lines 188-194 and the
\* rest of the calling handler.
DisconnectWait ==
    /\ main["ui"].pc = "wait"
    /\ Commit(Continue(disconnect_end(State, main["ui"].c, main["ui"].w),
                       main["ui"].then, main["ui"].config))
    /\ main' = [main EXCEPT !["ui"] = IdleTask]
    /\ UNCHANGED <<queue, rxcount, delivered, sendres, auto>>

\* connect() called on a connection
Connect(c) ==
    /\ MainIdle
    /\ conns[c].is_connected \/ Len(workers) < MaxWorkers
    /\ Commit(connect(State, c))
    /\ UNCHANGED <<queue, main, rxcount, delivered, sendres, auto>>

\* disconnect() called on a connection
Disconnect(c) ==
    /\ MainIdle
    /\ BeginDisconnect(c, "none", IdleTask.config)
    /\ UNCHANGED <<queue, rxcount, delivered, sendres, auto>>

\* ---- GUI thread: send_data ------------------------------------------------
NoSend == [ret |-> FALSE, wrote |-> "", emitted |-> "", error |-> FALSE,
           raised |-> FALSE, connected |-> FALSE, open |-> FALSE]

\* SerialWorker.write_data (lines 110-119) once the is_open test has passed:
\* serial_port.write(data) either writes or raises (always, on a port that
\* has been closed since the test); the exception is caught and reported.
write_data(w, d, accepted) ==
    IF workers[w].is_open /\ accepted
    THEN [ret |-> TRUE, wrote |-> d, error |-> FALSE, raised |-> FALSE]
    ELSE [ret |-> FALSE, wrote |-> "", error |-> TRUE, raised |-> FALSE]

\* SerialConnection.send_data after write_data has returned (lines 201-206)
send_data_always_emits(d, wr, open) ==
    [ret |-> wr.ret, wrote |-> wr.wrote, emitted |-> d, error |-> wr.error,
     raised |-> wr.raised, connected |-> TRUE, open |-> open]
send_data(d, wr, open) ==
    [ret |-> wr.ret, wrote |-> wr.wrote,
     emitted |-> IF wr.ret THEN d ELSE "",
     error |-> wr.error, raised |-> wr.raised, connected |-> TRUE,
     open |-> open]

\* ---- the automation engine: src/src/plugins/script_engine.py ---------------
\* The engine's part of the state, for the sequential code of its methods.
Nothing == [op |-> "none"]

Engine ==
    [auto_response_rules |-> auto_response_rules,
     scheduled_tasks |-> scheduled_tasks,
     current_recording |-> current_recording,
     saved_recordings |-> saved_recordings,
     frame_definitions |-> frame_definitions,
     timers |-> timers, modal |-> modal, last |-> last]

CommitEngine(es) ==
    /\ auto_response_rules' = es.auto_response_rules
    /\ scheduled_tasks' = es.scheduled_tasks
    /\ current_recording' = es.current_recording
    /\ saved_recordings' = es.saved_recordings
    /\ frame_definitions' = es.frame_definitions
    /\ timers' = es.timers
    /\ modal' = es.modal
    /\ last' = es.last

\* bytes.startswith, bytes.endswith, `pattern in data` and data == pattern
startswith(data, prefix) ==
    /\ Len(prefix) <= Len(data)
    /\ SubSeq(data, 1, Len(prefix)) = prefix

endswith(data, suffix) ==
    /\ Len(suffix) <= Len(data)
    /\ SubSeq(data, Len(data) - Len(suffix) + 1, Len(data)) = suffix

contains(data, pattern) ==
    \E i \in 0..(Len(data) - Len(pattern)) :
        SubSeq(data, i + 1, i + Len(pattern)) = pattern

eq_up_to_length(data, pattern) ==
    /\ Len(pattern) <= Len(data)
    /\ \A i \in DOMAIN pattern : data[i] = pattern[i]
eq(data, pattern) ==
    /\ Len(pattern) = Len(data)
    /\ \A i \in DOMAIN pattern : data[i] = pattern[i]

\* re.search(pattern, data) raises re.error when the pattern does not
\* compile.  The pattern language modelled: byte literals, "." and groups;
\* a group left open, or closed without having been opened, does not compile.
re_error(pattern) ==
    LET opened(i) == Cardinality({j \in 1..i : pattern[j] = "("})
        closed(i) == Cardinality({j \in 1..i : pattern[j] = ")"})
    IN  \/ opened(Len(pattern)) # closed(Len(pattern))
        \/ \E i \in 1..Len(pattern) : closed(i) > opened(i)

\* re.search for a pattern that compiles: its atoms occur somewhere in data,
\* "." standing for any byte but a newline.
re_search(pattern, data) ==
    LET atoms == SelectSeq(pattern, LAMBDA x : x \notin {"(", ")"})
        hit(a, b) == a = b \/ (a = "." /\ b # "LF")
    IN  \E i \in 0..(Len(data) - Len(atoms)) :
            \A j \in 1..Len(atoms) : hit(atoms[j], data[i + j])

\* AutoResponseRule.__init__ (lines 62-78)
AutoResponseRule(name, pattern, response, pattern_type, delay_ms) ==
    [name |-> name, pattern |-> pattern, response |-> response,
     pattern_type |-> pattern_type, delay_ms |-> delay_ms,
     enabled |-> TRUE, match_count |-> 0]

\* try: return re.search(self.pattern, data) is not None; except: return
\* False (lines 94-97)
regex_error_counts_as_match(pattern, data) ==
    re_error(pattern) \/ re_search(pattern, data)
regex(pattern, data) ==
    IF re_error(pattern) THEN FALSE ELSE re_search(pattern, data)

\* AutoResponseRule.matches (lines 80-99)
matches(rule, data) ==
    IF ~rule.enabled THEN FALSE
    ELSE CASE rule.pattern_type = "exact" -> eq(data, rule.pattern)
           [] rule.pattern_type = "contains" -> contains(data, rule.pattern)
           [] rule.pattern_type = "starts_with" -> startswith(data, rule.pattern)
           [] rule.pattern_type = "ends_with" -> endswith(data, rule.pattern)
           [] rule.pattern_type = "regex" -> regex(rule.pattern, data)
           [] OTHER -> FALSE

\* RecordSession.__init__ (lines 148-151); current_recording = None
RecordSession(name) ==
    [none |-> FALSE, name |-> name, records |-> <<>>, start_time |-> NoTime]
NoRecording == [RecordSession("") EXCEPT !.none = TRUE]

\* int((timestamp - start_time).total_seconds() * 1000) (line 159): int()
\* rounds toward zero.  The difference is in units of 500 microseconds.
elapsed_ms(delta) ==
    IF delta >= 0 THEN delta \div 2 ELSE -((-delta) \div 2)

\* RecordSession.add_record (lines 153-165)
add_record(session, direction, data, timestamp) ==
    LET elapsed == IF session.start_time = NoTime THEN 0
                   ELSE elapsed_ms(timestamp - session.start_time)
    IN  [session EXCEPT
            !.start_time = IF @ = NoTime THEN timestamp ELSE @,
            !.records = Append(@, [direction |-> direction, data |-> data,
                                   elapsed_ms |-> elapsed])]

\* ScriptEngine.record_data (lines 299-302)
record_data(es, direction, data, timestamp) ==
    IF es.current_recording.none THEN es
    ELSE [es EXCEPT !.current_recording =
                        add_record(@, direction, data, timestamp)]

\* The number of times MainWindow._connect has connected its slots to the
\* signals of connection c (main_window.py lines 273-276).
Slots(c) == IF HasKey(window.wired, c) THEN Get(window.wired, c) ELSE 0

\* MainWindow._on_data_sent (main_window.py lines 462-487), run once for
\* each of the n connections of data_sent to it
RECURSIVE on_data_sent(_, _, _, _)
on_data_sent(es, data, timestamp, n) ==
    IF n = 0 THEN es
    ELSE on_data_sent(record_data(es, "TX", data, timestamp), data,
                      timestamp, n - 1)

\* SerialConnection.send_data (lines 196-206) with SerialWorker.write_data,
\* called by a handler that runs to its end in one step.
call_send_data(c, d, accepted) ==
    LET w == conns[c].worker IN
    IF ~conns[c].is_connected \/ w = NoWorker THEN NoSend
    ELSE IF ~workers[w].is_open THEN [NoSend EXCEPT !.connected = TRUE]
    ELSE send_data(d, write_data(w, d, accepted), TRUE)

\* What a send_data call leaves in the engine: data_sent carries the bytes
\* and datetime.now() (lines 203-204) to the slots connected to it.
sent(es, c, res) ==
    IF res.emitted = "" THEN es
    ELSE on_data_sent(es, res.emitted, clock, Slots(c))

\* ScriptEngine.check_auto_response (lines 234-255).  `issued` lists what the
\* call did for each rule that matched.
Issue(es, i, how, bytes) ==
    [es EXCEPT !.last.issued = Append(@, [rule |-> i, how |-> how,
                                          bytes |-> bytes])]

\* QTimer.singleShot(rule.delay_ms, lambda: send_data(rule.response)) (lines
\* 250-251).  The lambda holds the variable `rule` of the call, not its
\* value: when the timer fires, after the loop has ended, the variable is
\* bound to the last rule of the list.
singleShot(es, i, c) ==
    LET rules == es.auto_response_rules
    IN  [Issue(es, i, "timer", "") EXCEPT
            !.timers = Append(@, [conn |-> c,
                                  delay_ms |-> rules[i].delay_ms,
                                  own |-> rules[i].response,
                                  rule |-> rules[Len(rules)].response])]

\* serial_connection.send_data(rule.response) (line 253)
respond(es, i, c, accepted) ==
    LET bytes == es.auto_response_rules[i].response
    IN  sent(Issue(es, i, "send", bytes), c, call_send_data(c, bytes, accepted))

\* for rule in self.auto_response_rules (line 241): on to the next rule,
\* whether this one matched or not
after_rule_first_match_wins(es, i, matched) ==
    IF matched THEN Len(es.auto_response_rules) + 1 ELSE i + 1
after_rule(es, i, matched) == i + 1

RECURSIVE for_rule(_, _, _, _, _)
for_rule(es, i, data, c, accepts) ==
    IF i > Len(es.auto_response_rules) THEN es
    ELSE LET rule == es.auto_response_rules[i] IN
         IF ~matches(rule, data)
         THEN for_rule(es, after_rule(es, i, FALSE), data, c, accepts)
         ELSE LET counted == [es EXCEPT
                                !.auto_response_rules[i].match_count = @ + 1]
                  answered == IF rule.delay_ms > 0
                              THEN singleShot(counted, i, c)
                              ELSE respond(counted, i, c, i \in accepts)
              IN  for_rule(answered, after_rule(es, i, TRUE), data, c, accepts)

check_auto_response(es, data, c, accepts) ==
    for_rule([es EXCEPT !.last =
                 [op |-> "check_auto_response", data |-> data,
                  before |-> [i \in DOMAIN es.auto_response_rules |->
                                 es.auto_response_rules[i].match_count],
                  issued |-> <<>>]],
             1, data, c, accepts)

\* MainWindow._on_data_received (main_window.py lines 432-460), run once for
\* each of the n connections of data_received to it
RECURSIVE on_data_received(_, _, _, _, _)
on_data_received(es, data, timestamp, accepts, n) ==
    IF n = 0 THEN es
    ELSE LET checked == IF window.current_connection # NoConn
                        THEN check_auto_response(es, data,
                                 window.current_connection, accepts)
                        ELSE es
         IN  on_data_received(record_data(checked, "RX", data, timestamp),
                              data, timestamp, accepts, n - 1)

\* The event loop delivers the oldest queued signal to the slot of the
\* worker's connection, _on_data_received, _on_error or _on_connection_lost
\* (lines 208-220), which emits the connection's own signal to the slots of
\* the main window.
Deliver ==
    /\ MainIdle
    /\ queue # <<>>
    /\ LET e == Head(queue)
           c == workers[e.w].conn
           st == IF e.kind = "lost"
                 THEN on_connection_lost(State, c, e.w) ELSE State
       IN  /\ queue' = Tail(queue)
           /\ delivered' = IF e.kind = "data"
                           THEN Append(delivered, <<c, e.chunk>>) ELSE delivered
           /\ conns' = st.conns
           /\ workers' = st.workers
           /\ IF e.kind = "data"
              THEN \E accepts \in SUBSET DOMAIN auto_response_rules :
                      CommitEngine(on_data_received(Engine, e.data, e.ts,
                                                    accepts, Slots(c)))
              ELSE UNCHANGED engine
    /\ UNCHANGED <<connections, main, rxcount, sendres, createres, window,
                   clock>>

\* A QTimer.singleShot callback of check_auto_response runs:
\* lambda: serial_connection.send_data(rule.response) (line 251)
shot(es, t, accepted) ==
    LET res == call_send_data(t.conn, t.rule, accepted)
    IN  [sent(es, t.conn, res)
            EXCEPT !.last = [op |-> "timer", own |-> t.own, bytes |-> t.rule,
                             wrote |-> res.wrote # ""]]

TimerShot(k) ==
    /\ MainIdle
    /\ k \in DOMAIN timers
    /\ \E accepted \in BOOLEAN :
        CommitEngine(shot([Engine EXCEPT !.timers =
                              SubSeq(@, 1, k - 1) \o SubSeq(@, k + 1, Len(@))],
                          timers[k], accepted))
    /\ UNCHANGED <<connections, conns, workers, queue, main, rxcount,
                   delivered, sendres, createres, window, clock>>

\* ScriptEngine.add_auto_response_rule, remove_auto_response_rule (lines
\* 226-232)
add_auto_response_rule(es, rule) ==
    [es EXCEPT !.auto_response_rules = Append(@, rule),
               !.last = [op |-> "add_auto_response_rule", name |-> rule.name]]

remove_auto_response_rule(es, rule_name) ==
    [es EXCEPT !.auto_response_rules =
                    SelectSeq(@, LAMBDA r : r.name # rule_name),
               !.last = [op |-> "remove_auto_response_rule",
                         name |-> rule_name]]

\* ScheduledTask.__init__ (lines 117-131).  Beside the attributes: the
\* connection its callback sends on and the identity of the object.
ScheduledTask(name, data, interval_ms, repeat) ==
    [name |-> name, data |-> data, interval_ms |-> interval_ms,
     repeat |-> repeat, enabled |-> TRUE, sent_count |-> 0, timer |-> "none",
     conn |-> NoConn, id |-> 0]

\* ScriptEngine.add_scheduled_task (lines 257-278): the task is appended
\* and its timer started.
add_scheduled_task(es, task, c) ==
    LET used == {es.scheduled_tasks[i].id : i \in DOMAIN es.scheduled_tasks}
                    \cup {es.modal[i].id : i \in DOMAIN es.modal}
        id == CHOOSE n \in 1..(Cardinality(used) + 1) :
                /\ n \notin used
                /\ \A m \in 1..(n - 1) : m \in used
    IN  [es EXCEPT !.scheduled_tasks =
                        Append(@, [task EXCEPT !.timer = "active", !.conn = c,
                                               !.id = id]),
                   !.last = [op |-> "add_scheduled_task", name |-> task.name]]

\* ScriptEngine.remove_scheduled_task (lines 280-287): the first task of
\* that name has its timer stopped and leaves the list.
remove_scheduled_task(es, task_name) ==
    LET tasks == es.scheduled_tasks
        named == {i \in DOMAIN tasks : tasks[i].name = task_name}
        first == CHOOSE i \in named : \A j \in named : i <= j
        gone  == [es EXCEPT !.last = [op |-> "remove_scheduled_task",
                                      name |-> task_name]]
    IN  IF named = {} THEN gone
        ELSE [gone EXCEPT !.scheduled_tasks =
                SubSeq(tasks, 1, first - 1)
                    \o SubSeq(tasks, first + 1, Len(tasks))]

\* send_task_data after serial_connection.send_data has returned (lines
\* 270-275), for the task object `id`; a task removed in the meantime is
\* still counted, but no longer seen.
after_send_keeps_running(es, id) ==
    LET tasks == es.scheduled_tasks
        at == {i \in DOMAIN tasks : tasks[i].id = id}
        i == CHOOSE i \in at : TRUE
    IN  IF at = {} THEN es
        ELSE [es EXCEPT !.scheduled_tasks[i].sent_count = @ + 1,
                        !.last.counted = TRUE]
after_send(es, id) ==
    LET tasks == es.scheduled_tasks
        at == {i \in DOMAIN tasks : tasks[i].id = id}
        i == CHOOSE i \in at : TRUE
        n == tasks[i].sent_count + 1
        done == tasks[i].repeat > 0 /\ n >= tasks[i].repeat
    IN  IF at = {} THEN es
        ELSE [es EXCEPT !.scheduled_tasks[i].sent_count = n,
                        !.scheduled_tasks[i].timer =
                            IF done THEN "stopped" ELSE @,
                        !.scheduled_tasks[i].enabled =
                            IF done THEN FALSE ELSE @,
                        !.last.counted = TRUE]

\* What a run of send_task_data did: whether it called send_data, whether
\* the payload was written, whether it counted the send.
Tick(task, sent_, wrote) ==
    [op |-> "send_task_data", name |-> task.name, repeat |-> task.repeat,
     sent |-> sent_, wrote |-> wrote, counted |-> FALSE]

\* The timer of task i times out: send_task_data (lines 265-275).  A write
\* that raises is reported by write_data through error_occurred (line 118),
\* whose slots run at once: SerialConnection._on_error and
\* MainWindow._on_error, which opens QMessageBox.critical (main_window.py
\* line 494).  The dialog runs the event loop until it is closed and the
\* callback stays suspended inside send_data meanwhile; Qt does not deliver
\* a timer's event while an earlier event of the same timer is being handled.
TimerTimeout(i) ==
    /\ MainIdle
    /\ scheduled_tasks[i].timer = "active"
    /\ \A k \in DOMAIN modal : modal[k].id # scheduled_tasks[i].id
    /\ LET task == scheduled_tasks[i] IN
       IF ~task.enabled
       THEN CommitEngine([Engine EXCEPT !.last = Tick(task, FALSE, FALSE)])
       ELSE /\ task.sent_count < MaxSent
            /\ \E accepted \in BOOLEAN :
                LET res == call_send_data(task.conn, task.data, accepted)
                    es == sent([Engine EXCEPT
                                  !.last = Tick(task, TRUE, res.wrote # "")],
                               task.conn, res)
                IN  IF res.error /\ Slots(task.conn) > 0
                    THEN /\ Len(modal) < MaxModal
                         /\ CommitEngine([es EXCEPT !.modal =
                                Append(@, [id |-> task.id, tick |-> es.last])])
                    ELSE CommitEngine(after_send(es, task.id))
    /\ UNCHANGED <<connections, conns, workers, queue, main, rxcount,
                   delivered, sendres, createres, window, clock>>

\* The innermost error dialog is closed: send_data returns and the callback
\* suspended in it goes on.
DialogClosed ==
    /\ MainIdle
    /\ modal # <<>>
    /\ CommitEngine(after_send([Engine EXCEPT
                                  !.modal = SubSeq(@, 1, Len(@) - 1),
                                  !.last = modal[Len(modal)].tick],
                               modal[Len(modal)].id))
    /\ UNCHANGED <<connections, conns, workers, queue, main, rxcount,
                   delivered, sendres, createres, window, clock>>

\* The methods of the engine called from GUI-thread code.
Call(es) ==
    /\ MainIdle
    /\ CommitEngine(es)
    /\ UNCHANGED <<connections, conns, workers, queue, main, rxcount,
                   delivered, sendres, createres, window, clock>>

AddAutoResponseRule(rule) ==
    /\ Len(auto_response_rules) < MaxRules
    /\ Call(add_auto_response_rule(Engine, rule))

RemoveAutoResponseRule(name) == Call(remove_auto_response_rule(Engine, name))

AddScheduledTask(task, c) ==
    /\ Len(scheduled_tasks) < MaxTasks
    /\ Call(add_scheduled_task(Engine, task, c))

RemoveScheduledTask(name) == Call(remove_scheduled_task(Engine, name))

\* ---- GUI thread: the callers of send_data ---------------------------------
Returned(c, d) == [IdleTask EXCEPT !.pc = "returned", !.c = c, !.data = d]

\* A caller invokes send_data(d) on a connection: the tests of lines 198 and
\* 113, up to the call of serial_port.write.
SendBegin(k, c, d) ==
    /\ MainIdle
    /\ main[k].pc = "idle"
    /\ LET w == conns[c].worker IN
       IF ~conns[c].is_connected \/ w = NoWorker
       THEN /\ sendres' = NoSend
            /\ main' = [main EXCEPT ![k] = Returned(c, d)]
       ELSE IF ~workers[w].is_open
       THEN /\ sendres' = [NoSend EXCEPT !.connected = TRUE]
            /\ main' = [main EXCEPT ![k] = Returned(c, d)]
       ELSE /\ main' = [main EXCEPT ![k] = [IdleTask EXCEPT !.pc = "writing",
                                            !.c = c, !.w = w, !.data = d]]
            /\ UNCHANGED sendres
    /\ UNCHANGED <<connections, conns, workers, queue, rxcount, delivered,
                   createres, window, auto>>

\* serial_port.write returns or raises, write_data and send_data return.
SendEnd(k) ==
    /\ main[k].pc = "writing"
    /\ \E accepted \in BOOLEAN :
        LET res == send_data(main[k].data,
                             write_data(main[k].w, main[k].data, accepted),
                             workers[main[k].w].is_open)
        IN  /\ sendres' = res
            /\ CommitEngine(sent(Engine, main[k].c, res))
    /\ main' = [main EXCEPT ![k] = Returned(main[k].c, main[k].data)]
    /\ UNCHANGED <<connections, conns, workers, queue, rxcount, delivered,
                   createres, window, clock>>

\* The caller has the result and goes back to the event loop.
SendReturn(k) ==
    /\ main[k].pc = "returned"
    /\ main' = [main EXCEPT ![k] = IdleTask]
    /\ sendres' = NoSend
    /\ UNCHANGED <<connections, conns, workers, queue, rxcount, delivered,
                   createres, window, auto>>

\* ---- GUI thread: the registry and the main window -------------------------
\* SerialPortManager.create_connection called on its own
CreateConnection(config) ==
    /\ MainIdle
    /\ HasKey(connections, config.port) \/ Len(conns) < MaxConns
    /\ Commit(call_create_connection(State, config))
    /\ UNCHANGED <<queue, main, rxcount, delivered, sendres, auto>>

\* SerialPortManager.remove_connection (lines 275-281)
RemoveConnection(port) ==
    /\ MainIdle
    /\ HasKey(connections, port)
    /\ BeginDisconnect(Get(connections, port), "remove",
                       SerialConfig(port, ""))
    /\ UNCHANGED <<queue, rxcount, delivered, sendres, auto>>

\* get_connection(port).connect() (lines 271-273)
GetConnect(port) ==
    /\ HasKey(connections, port)
    /\ Connect(Get(connections, port))

Connected ==
    /\ window.current_connection # NoConn
    /\ conns[window.current_connection].is_connected

\* MainWindow._on_connect_disconnect_clicked (lines 252-259) with _connect
\* (lines 261-292, the dialog accepted with `config`) and _disconnect
\* (lines 294-310)
OnConnectDisconnectClicked(config) ==
    /\ MainIdle
    /\ IF Connected
       THEN BeginDisconnect(window.current_connection, "none", IdleTask.config)
       ELSE /\ HasKey(connections, config.port) \/ Len(conns) < MaxConns
            /\ Len(workers) < MaxWorkers
            /\ Commit(open_with(State, config))
            /\ UNCHANGED main
    /\ UNCHANGED <<queue, rxcount, delivered, sendres, auto>>

\* MainWindow._on_port_settings (lines 318-360), the dialog accepted with
\* `config` and the reconnect question answered Yes
OnPortSettings(config) ==
    /\ MainIdle
    /\ Connected
    /\ HasKey(connections, config.port) \/ Len(conns) < MaxConns
    /\ Len(workers) < MaxWorkers
    /\ BeginDisconnect(window.current_connection, "reconnect", config)
    /\ UNCHANGED <<queue, rxcount, delivered, sendres, auto>>

\* ---- specifications -------------------------------------------------------
NoCreate == [config |-> IdleTask.config, existing |-> NoConn,
             after |-> NoConn, ret |-> NoConn]

Quiet ==
    /\ workers = <<>>
    /\ queue = <<>>
    /\ main = [k \in Tasks |-> IdleTask]
    /\ rxcount = 0
    /\ delivered = <<>>
    /\ sendres = NoSend

\* ScriptEngine.__init__ (lines 193-199): no task, no recording, no timer
Fresh ==
    /\ scheduled_tasks = <<>>
    /\ current_recording = NoRecording
    /\ saved_recordings = {}
    /\ frame_definitions = {}
    /\ timers = <<>>
    /\ modal = <<>>
    /\ clock = 0
    /\ last = Nothing

\* One connection made by create_connection, its signals connected to the
\* main window, not yet connected.
Created ==
    /\ conns = <<SerialConnection(SerialConfig("COM1", "9600"))>>
    /\ window = [current_connection |-> 1,
                 config |-> SerialConfig("COM1", "9600"),
                 wired |-> {<<1, 1>>}]
    /\ connections = {<<"COM1", 1>>}
    /\ createres = [config |-> SerialConfig("COM1", "9600"),
                    existing |-> NoConn, after |-> 1, ret |-> 1]

Init ==
    /\ Quiet
    /\ Created
    /\ Fresh
    /\ auto_response_rules = <<>>

Worker(w) ==
    \/ \E ok \in BOOLEAN : WorkerOpen(w, ok)
    \/ WorkerCheck(w)
    \/ WorkerSleep(w)
    \/ \E d \in RxData : WorkerRead(w, d)
    \/ WorkerEmit(w)
    \/ WorkerSerialError(w)
    \/ WorkerUnexpectedError(w)
    \/ WorkerCleanup(w)
    \/ WorkerKilled(w)

Next ==
    \/ \E c \in DOMAIN conns : Connect(c)
    \/ \E c \in DOMAIN conns : Disconnect(c)
    \/ DisconnectWait
    \/ Deliver
    \/ \E k \in Callers, c \in DOMAIN conns, d \in TxData : SendBegin(k, c, d)
    \/ \E k \in Callers : SendEnd(k)
    \/ \E k \in Callers : SendReturn(k)
    \/ \E w \in DOMAIN workers : Worker(w)

Spec == Init /\ [][Next]_vars

\* The same connection with a silent device: the lifecycle and the sends.
Lifecycle(w) ==
    \/ \E ok \in BOOLEAN : WorkerOpen(w, ok)
    \/ WorkerCheck(w)
    \/ WorkerSleep(w)
    \/ WorkerSerialError(w)
    \/ WorkerUnexpectedError(w)
    \/ WorkerCleanup(w)
    \/ WorkerKilled(w)

SendNext ==
    \/ \E c \in DOMAIN conns : Connect(c)
    \/ \E c \in DOMAIN conns : Disconnect(c)
    \/ DisconnectWait
    \/ Deliver
    \/ \E k \in Callers, c \in DOMAIN conns, d \in TxData : SendBegin(k, c, d)
    \/ \E k \in Callers : SendEnd(k)
    \/ \E k \in Callers : SendReturn(k)
    \/ \E w \in DOMAIN workers : Lifecycle(w)

SendSpec == Init /\ [][SendNext]_vars

\* The registry, from empty: connections are created, connected and removed
\* through the manager; the device is silent and healthy once opened.
RegInit ==
    /\ Quiet
    /\ Fresh
    /\ auto_response_rules = <<>>
    /\ connections = {}
    /\ conns = <<>>
    /\ window = [current_connection |-> NoConn, config |-> IdleTask.config,
                 wired |-> {}]
    /\ createres = NoCreate

Silent(w) ==
    \/ WorkerOpen(w, TRUE)
    \/ WorkerCheck(w)
    \/ WorkerSleep(w)
    \/ WorkerCleanup(w)
    \/ WorkerKilled(w)

RegNext ==
    \/ \E config \in Configs : CreateConnection(config)
    \/ \E port \in Ports : RemoveConnection(port)
    \/ \E port \in Ports : GetConnect(port)
    \/ DisconnectWait
    \/ \E w \in DOMAIN workers : Silent(w)

RegSpec == RegInit /\ [][RegNext]_vars

\* The main window, from start-up: the user connects, disconnects and changes
\* the port settings.
WinNext ==
    \/ \E config \in Configs : OnConnectDisconnectClicked(config)
    \/ \E config \in Configs : OnPortSettings(config)
    \/ DisconnectWait
    \/ \E w \in DOMAIN workers : Silent(w)

WinSpec == RegInit /\ [][WinNext]_vars

\* The rules of the engine at work: the list is given, the device talks, the
\* window's slot runs the rules on every chunk and the timers fire.
Disabled(rule) == [rule EXCEPT !.enabled = FALSE]

RuleInputs ==
    LET made == {AutoResponseRule(response, pattern[2], response, pattern[1],
                                  delay_ms) :
                    response \in TxData,
                    pattern \in {<<"exact", AT>>, <<"regex", <<"A", "(">>>>},
                    delay_ms \in Delays}
    IN  made \cup {Disabled(rule) : rule \in made}

RuleLists == UNION {[1..n -> RuleInputs] : n \in 1..MaxRules}

RuleInit ==
    /\ Quiet
    /\ Created
    /\ Fresh
    /\ auto_response_rules \in RuleLists

Reader(w, payloads) ==
    \/ WorkerOpen(w, TRUE)
    \/ WorkerCheck(w)
    \/ WorkerSleep(w)
    \/ \E d \in payloads : WorkerRead(w, d)
    \/ WorkerEmit(w)

RuleNext ==
    \/ \E c \in DOMAIN conns : Connect(c)
    \/ \E w \in DOMAIN workers : Reader(w, RxData)
    \/ Deliver
    \/ \E k \in DOMAIN timers : TimerShot(k)

RuleSpec == RuleInit /\ [][RuleNext]_vars

\* One rule of any kind against the payloads of the device.
Kinds == {"exact", "contains", "starts_with", "ends_with", "regex", "glob"}
Patterns == {AT, <<"A", "T">>, <<"CR", "LF">>, <<"T", "CR">>, <<"X">>,
             <<"A", ".", "CR">>, <<"(", "A", "T", ")">>, <<"T", "(">>}
Payloads == {AT, ATX, <<"X">> \o AT, <<"X">> \o ATX, <<"A", "T">>}

MatchInit ==
    /\ Quiet
    /\ Created
    /\ Fresh
    /\ \E kind \in Kinds, pattern \in Patterns :
        auto_response_rules = <<AutoResponseRule("r", pattern, "a", kind, 0)>>

MatchNext ==
    \/ \E c \in DOMAIN conns : Connect(c)
    \/ \E w \in DOMAIN workers : Reader(w, Payloads)
    \/ Deliver

MatchSpec == MatchInit /\ [][MatchNext]_vars

\* The lists of the engine: rules and tasks are added and removed.
TaskNames == {"t1", "t2"}
Repeats == {-1, 2}
TaskInputs == {ScheduledTask(name, "a", 1000, repeat) :
                  name \in TaskNames, repeat \in Repeats}

ListNext ==
    \/ \E name \in TxData :
        AddAutoResponseRule(AutoResponseRule(name, AT, name, "exact", 0))
    \/ \E name \in TxData : RemoveAutoResponseRule(name)
    \/ \E task \in TaskInputs, c \in DOMAIN conns : AddScheduledTask(task, c)
    \/ \E name \in TaskNames : RemoveScheduledTask(name)

ListSpec == Init /\ [][ListNext]_vars

\* A worker that opens its port and finds nothing to read.
Idle(w) ==
    \/ WorkerOpen(w, TRUE)
    \/ WorkerCheck(w)
    \/ WorkerSleep(w)

\* The scheduled tasks at work: tasks are added and removed, the connection
\* is opened, the timers of the tasks tick.  While an error dialog is open
\* the user reaches nothing else.
TaskNext ==
    \/ /\ modal = <<>>
       /\ \/ \E task \in TaskInputs, c \in DOMAIN conns :
                AddScheduledTask(task, c)
          \/ \E name \in TaskNames : RemoveScheduledTask(name)
          \/ \E c \in DOMAIN conns : Connect(c)
    \/ \E i \in DOMAIN scheduled_tasks : TimerTimeout(i)
    \/ DialogClosed
    \/ \E w \in DOMAIN workers : Idle(w)

TaskSpec == Init /\ [][TaskNext]_vars

\* ScriptEngine.start_recording (lines 289-291)
StartRecording(name) ==
    Call([Engine EXCEPT !.current_recording = RecordSession(name),
                        !.last = [op |-> "start_recording"]])

\* ScriptEngine.stop_recording (lines 293-297)
stop_recording_keeps_recording(es) ==
    IF es.current_recording.none THEN [es EXCEPT !.last = [op |-> "stop_recording"]]
    ELSE [es EXCEPT
            !.saved_recordings = Put(@, es.current_recording.name,
                                     es.current_recording),
            !.last = [op |-> "stop_recording"]]
stop_recording(es) ==
    IF es.current_recording.none
    THEN [es EXCEPT !.last = [op |-> "stop_recording"]]
    ELSE [es EXCEPT
            !.saved_recordings = Put(@, es.current_recording.name,
                                     es.current_recording),
            !.current_recording = NoRecording,
            !.last = [op |-> "stop_recording"]]

StopRecording == Call(stop_recording(Engine))

\* Time passes: datetime.now() gives a later value.
Advance ==
    /\ clock < MaxClock
    /\ clock' = clock + 1
    /\ UNCHANGED <<connections, conns, workers, queue, main, rxcount,
                   delivered, sendres, createres, window, engine>>

\* Recording sessions: one is started and stopped, the device sends the
\* payload b, the send panel sends the payload a, time passes between the
\* steps.
RecNext ==
    \/ current_recording.none /\ StartRecording("s")
    \/ StopRecording
    \/ \E c \in DOMAIN conns : Connect(c)
    \/ \E w \in DOMAIN workers : Reader(w, {"b"})
    \/ Len(current_recording.records) < MaxRecords /\ Deliver
    \/ /\ Len(current_recording.records) < MaxRecords
       /\ \E c \in DOMAIN conns : SendBegin("send_panel", c, "a")
    \/ SendEnd("send_panel")
    \/ SendReturn("send_panel")
    \/ Advance

RecSpec == Init /\ [][RecNext]_vars

\* int(record['elapsed_ms'] / speed) (line 321): int() rounds toward zero.
\* speed is a float given here in units of 0.5, for which the division is
\* exact; a speed of zero raises ZeroDivisionError before this is reached.
delay_times_speed(elapsed, speed) == (elapsed * speed) \div 2
delay(elapsed, speed) ==
    LET p == 2 * elapsed
        q == IF p < 0 THEN -p ELSE p
        r == IF speed < 0 THEN -speed ELSE speed
    IN  IF (p < 0) = (speed < 0) THEN q \div r ELSE -(q \div r)

\* The loop of replay_recording (lines 319-323) from record i on: a TX
\* record gets a single-shot timer whose callback holds the record's bytes
\* (`lambda d=record['data']`); the division raises for speed 0.
RECURSIVE for_record(_, _, _, _, _)
for_record_any_direction(es, records, i, c, speed) ==
    IF i > Len(records) THEN es
    ELSE IF speed = 0 THEN [es EXCEPT !.last.raised = TRUE]
    ELSE for_record([es EXCEPT
                !.timers = Append(@, [conn |-> c,
                                      delay_ms |-> delay(records[i].elapsed_ms,
                                                         speed),
                                      own |-> records[i].data,
                                      rule |-> records[i].data])],
            records, i + 1, c, speed)
for_record(es, records, i, c, speed) ==
    IF i > Len(records) THEN es
    ELSE IF records[i].direction # "TX"
    THEN for_record(es, records, i + 1, c, speed)
    ELSE IF speed = 0 THEN [es EXCEPT !.last.raised = TRUE]
    ELSE for_record([es EXCEPT
                !.timers = Append(@, [conn |-> c,
                                      delay_ms |-> delay(records[i].elapsed_ms,
                                                         speed),
                                      own |-> records[i].data,
                                      rule |-> records[i].data])],
            records, i + 1, c, speed)

\* ScriptEngine.replay_recording (lines 304-323).  `last` keeps the
\* arguments, the timers there were before the call, the session that was
\* saved under the name, and how the call ended.
replay_recording(es, name, c, speed) ==
    LET found == HasKey(es.saved_recordings, name)
        recording == IF found THEN Get(es.saved_recordings, name)
                     ELSE NoRecording
        called == [es EXCEPT !.last =
                      [op |-> "replay_recording", name |-> name,
                       speed |-> speed, before |-> Len(es.timers),
                       recording |-> recording,
                       script_error |-> ~found, raised |-> FALSE]]
    IN  IF ~found THEN called
        ELSE for_record(called, recording.records, 1, c, speed)

ReplayRecording(name, c, speed) ==
    Call(replay_recording(Engine, name, c, speed))

\* Replay: sessions are recorded as above; with none being recorded a
\* session is replayed at a speed of -1.0, 0, 1.0 or 2.0, under a name that
\* is saved or not, and the timers of the replay fire before anything else
\* is done.
Speeds == {-2, 0, 2, 4}

ReplayNext ==
    \/ timers = <<>> /\ RecNext
    \/ /\ timers = <<>>
       /\ current_recording.none
       /\ \E name \in {"s", "x"}, c \in DOMAIN conns, speed \in Speeds :
            ReplayRecording(name, c, speed)
    \/ \E k \in DOMAIN timers : TimerShot(k)

ReplaySpec == Init /\ [][ReplayNext]_vars

\* ---------------------------------------------------------------------
\* The protocol analyzers (src/src/core/protocol_analyzer.py).  A bytes
\* object is a sequence of integers 0..255; None is the record below.
\* ---------------------------------------------------------------------
None == [none |-> TRUE]

\* data[start:stop] for non-negative start and stop: what lies beyond the
\* end is left out without an error.
slice(data, start, stop) ==
    SubSeq(data, start + 1, IF stop < Len(data) THEN stop ELSE Len(data))

\* a ^ b on non-negative integers, four bits at a time
RECURSIVE xor(_, _)
xor(a, b) ==
    LET bit(k) == ((a \div k) + (b \div k)) % 2
    IN  IF a = 0 THEN b
        ELSE IF b = 0 THEN a
        ELSE 16 * xor(a \div 16, b \div 16)
                + bit(1) + 2 * bit(2) + 4 * bit(4) + 8 * bit(8)

\* struct.unpack('>H', b)[0] and struct.unpack('<H', b)[0] of two bytes
unpack_be(b) == 256 * b[1] + b[2]
unpack_le(b) == b[1] + 256 * b[2]

\* ModbusRTUAnalyzer.calculate_crc (lines 67-77): `for _ in range(8)` with
\* n rounds to go, then `for byte in data` from byte i on.
RECURSIVE shift(_, _)
shift_with_polynomial_8005(crc, n) ==
    IF n = 0 THEN crc
    ELSE IF crc % 2 = 1 THEN shift(xor(crc \div 2, 32773), n - 1)
    ELSE shift(crc \div 2, n - 1)
shift(crc, n) ==
    IF n = 0 THEN crc
    ELSE IF crc % 2 = 1 THEN shift(xor(crc \div 2, 40961), n - 1)
    ELSE shift(crc \div 2, n - 1)

RECURSIVE for_byte(_, _, _)
for_byte(crc, data, i) ==
    IF i > Len(data) THEN crc
    ELSE for_byte(shift(xor(crc, data[i]), 8), data, i + 1)

calculate_crc(data) == for_byte(65535, data, 1)

\* ModbusRTUAnalyzer.parse_frame (lines 80-108).  The message of line 99
\* is kept as its text and the two numbers it prints.
parse_frame_minimum_5(data) ==
    IF Len(data) < 5 THEN None
    ELSE LET received_crc == unpack_le(slice(data, Len(data) - 2, Len(data)))
             calculated_crc == calculate_crc(slice(data, 0, Len(data) - 2))
         IN  [slave_id |-> data[1],
              function_code |-> data[2],
              data |-> slice(data, 2, Len(data) - 2),
              crc |-> received_crc,
              is_valid |-> received_crc = calculated_crc,
              error_msg |-> IF received_crc = calculated_crc THEN None
                            ELSE [text |-> "CRC mismatch",
                                  received |-> received_crc,
                                  calculated |-> calculated_crc]]
parse_frame_drops_invalid(data) ==
    IF Len(data) < 4 THEN None
    ELSE IF unpack_le(slice(data, Len(data) - 2, Len(data)))
                # calculate_crc(slice(data, 0, Len(data) - 2))
    THEN None
    ELSE [slave_id |-> data[1], function_code |-> data[2],
          data |-> slice(data, 2, Len(data) - 2),
          crc |-> unpack_le(slice(data, Len(data) - 2, Len(data))),
          is_valid |-> TRUE, error_msg |-> None]
parse_frame(data) ==
    IF Len(data) < 4 THEN None
    ELSE LET received_crc == unpack_le(slice(data, Len(data) - 2, Len(data)))
             calculated_crc == calculate_crc(slice(data, 0, Len(data) - 2))
         IN  [slave_id |-> data[1],
              function_code |-> data[2],
              data |-> slice(data, 2, Len(data) - 2),
              crc |-> received_crc,
              is_valid |-> received_crc = calculated_crc,
              error_msg |-> IF received_crc = calculated_crc THEN None
                            ELSE [text |-> "CRC mismatch",
                                  received |-> received_crc,
                                  calculated |-> calculated_crc]]

\* parse_read_holding_registers_request (lines 111-123)
parse_read_holding_registers_request(frame) ==
    IF Len(frame.data) < 4 THEN [error |-> "Invalid data length"]
    ELSE [type |-> "Read Holding Registers Request",
          start_address |-> unpack_be(slice(frame.data, 0, 2)),
          quantity |-> unpack_be(slice(frame.data, 2, 4))]

\* parse_read_holding_registers_response (lines 126-149); registers_hex
\* prints the same registers and is left out.
parse_read_holding_registers_response_no_count_check(frame) ==
    IF Len(frame.data) < 1 THEN [error |-> "Invalid data length"]
    ELSE LET registers_data == slice(frame.data, 1, Len(frame.data))
             at == {i \in 0..(Len(registers_data) - 1) :
                       i % 2 = 0 /\ i + 1 < Len(registers_data)}
         IN  [type |-> "Read Holding Registers Response",
              byte_count |-> frame.data[1],
              registers |-> [k \in 1..Cardinality(at) |->
                  unpack_be(slice(registers_data, 2 * (k - 1), 2 * k))]]
parse_read_holding_registers_response(frame) ==
    IF Len(frame.data) < 1 THEN [error |-> "Invalid data length"]
    ELSE LET byte_count == frame.data[1]
             registers_data == slice(frame.data, 1, Len(frame.data))
             at == {i \in 0..(Len(registers_data) - 1) :
                       i % 2 = 0 /\ i + 1 < Len(registers_data)}
         IN  IF Len(registers_data) # byte_count
             THEN [error |-> "Byte count mismatch"]
             ELSE [type |-> "Read Holding Registers Response",
                   byte_count |-> byte_count,
                   registers |-> [k \in 1..Cardinality(at) |->
                       unpack_be(slice(registers_data, 2 * (k - 1), 2 * k))]]

\* parse_write_single_register_request (lines 152-165); value_hex prints
\* the same value and is left out.
parse_write_single_register_request(frame) ==
    IF Len(frame.data) < 4 THEN [error |-> "Invalid data length"]
    ELSE [type |-> "Write Single Register Request",
          address |-> unpack_be(slice(frame.data, 0, 2)),
          value |-> unpack_be(slice(frame.data, 2, 4))]

\* ModbusRTUAnalyzer.analyze_frame (lines 168-184): the entries of
\* frame.to_dict() (lines 42-51) that are not printed forms, and 'details',
\* None when the key is not set.
analyze_frame(frame) ==
    [slave_id |-> frame.slave_id,
     data_length |-> Len(frame.data),
     is_valid |-> frame.is_valid,
     error_msg |-> frame.error_msg,
     details |->
        IF frame.function_code = 3
        THEN IF Len(frame.data) = 4
             THEN parse_read_holding_registers_request(frame)
             ELSE parse_read_holding_registers_response(frame)
        ELSE IF frame.function_code = 6
        THEN parse_write_single_register_request(frame)
        ELSE None]

ParseFrame(data) ==
    Call([Engine EXCEPT !.last = [op |-> "parse_frame", data |-> data,
                                  frame |-> parse_frame(data)]])

AnalyzeFrame ==
    /\ last.op = "parse_frame"
    /\ last.frame # None
    /\ Call([Engine EXCEPT !.last = [op |-> "analyze_frame",
                                     frame |-> last.frame,
                                     result |-> analyze_frame(last.frame)]])

\* The buffers handed to parse_frame: the read request for ten registers
\* from address 0 with its check bytes right and wrong, buffers too short
\* for a frame, and frames of the functions 1, 3 and 6 with every payload
\* of up to MaxPayload of the bytes below, followed by the right check
\* bytes or by wrong ones; and a frame of function 3 whose 4-byte payload
\* starts with the byte count 3.
Request == <<1, 3, 0, 0, 0, 10>>
Bytes == {1, 2, 255}
RECURSIVE Strings(_)
Strings(n) ==
    IF n = 0 THEN {<<>>}
    ELSE Strings(n - 1) \cup
         {Append(b, x) : b \in {b \in Strings(n - 1) : Len(b) = n - 1},
                         x \in Bytes}
Checked(body) ==
    body \o <<calculate_crc(body) % 256, calculate_crc(body) \div 256>>
Frames ==
    {Request \o <<197, 205>>, Request \o <<197, 206>>,
     Checked(<<1, 3, 3, 1, 2, 255>>)}
    \cup Strings(3)
    \cup {Checked(<<1, f>> \o b) : f \in {1, 3, 6}, b \in Strings(MaxPayload)}
    \cup {<<1, f>> \o b \o <<1, 2>> :
            f \in {1, 3, 6}, b \in Strings(MaxPayload)}

\* One buffer is parsed and the frame, if there is one, analyzed.
ModbusNext ==
    \/ last = Nothing /\ \E data \in Frames : ParseFrame(data)
    \/ AnalyzeFrame

ModbusSpec == Init /\ [][ModbusNext]_vars

\* struct.unpack(fmt, b)[0] for the big-endian formats of
\* FrameDefinition.parse, by field type (lines 236-253): struct.error when
\* b has not the size of the format.  A value of 32 bits is kept as its two
\* halves of 16 bits, value = 65536 * high + low, a float as its 32 bits.
RECURSIVE be(_)
be(b) == IF b = <<>> THEN 0 ELSE 256 * be(SubSeq(b, 1, Len(b) - 1)) + b[Len(b)]

unpack(field_type, b) ==
    LET size == CASE field_type \in {"int8"} -> 1
                  [] field_type \in {"uint16", "int16"} -> 2
                  [] OTHER -> 4
        half == IF size = 1 THEN 128 ELSE 32768
        signed == field_type \in {"int8", "int16", "int32"}
        head == be(SubSeq(b, 1, IF size = 1 THEN 1 ELSE 2))
        high == IF signed /\ head >= half THEN head - 2 * half ELSE head
        wide == [high |-> high, low |-> be(SubSeq(b, 3, 4))]
    IN  IF Len(b) # size
        THEN [error |-> [text |-> "unpack requires a buffer", bytes |-> size]]
        ELSE [error |-> None,
              value |-> IF size < 4 THEN high
                        ELSE IF field_type = "float" THEN [float |-> wide]
                        ELSE wide]

\* xor_checksum of create_sample_frame_definition (lines 337-341), over
\* data[:-1] from byte i on: parse hands it the whole buffer, the function
\* leaves the last byte out.
RECURSIVE xor_checksum(_, _)
xor_checksum_of_whole_buffer(data, i) ==
    IF i > Len(data) THEN 0
    ELSE xor(data[i], xor_checksum(data, i + 1))
xor_checksum(data, i) ==
    IF i >= Len(data) THEN 0 ELSE xor(data[i], xor_checksum(data, i + 1))

\* The loop of FrameDefinition.parse from field i on (lines 224-267); an
\* exception leaves the loop with the fields parsed so far (lines 288-294).
\* No field has a format_func.  decode('utf-8', errors='replace') gives the
\* code points: a byte below 128 itself, the byte 255 U+FFFD.
RECURSIVE for_field(_, _, _, _, _)
for_field(fields, i, data, offset, parsed_fields) ==
    LET field == fields[i]
        width == CASE field.type \in {"uint8", "int8"} -> 1
                   [] field.type \in {"uint16", "int16"} -> 2
                   [] field.type \in {"bytes", "string"} -> field.size
                   [] OTHER -> 4
        part == slice(data, offset, offset + width)
        unpacked == unpack(field.type, part)
        value == CASE field.type = "uint8" -> data[offset + 1]
                   [] field.type = "bytes" -> part
                   [] field.type = "string" ->
                        [k \in DOMAIN part |->
                            IF part[k] < 128 THEN part[k] ELSE 65533]
                   [] OTHER -> unpacked.value
    IN  IF i > Len(fields)
        THEN [parsed_fields |-> parsed_fields, error |-> None]
        ELSE IF offset >= Len(data)
        THEN [parsed_fields |-> parsed_fields,
              error |-> [text |-> "Not enough data for field",
                         field |-> field.name]]
        ELSE IF field.type \notin {"uint8", "uint16", "uint32", "int8",
                                   "int16", "int32", "float", "bytes",
                                   "string"}
        THEN [parsed_fields |-> parsed_fields,
              error |-> [text |-> "Unknown field type", type |-> field.type]]
        ELSE IF field.type \notin {"uint8", "bytes", "string"}
                /\ unpacked.error # None
        THEN [parsed_fields |-> parsed_fields, error |-> unpacked.error]
        ELSE for_field(fields, i + 1, data, offset + width,
                       Put(parsed_fields, field.name, value))

\* FrameDefinition.parse (lines 218-294) of a definition with the fields and
\* the checksum function given; the result is the CustomFrame.
parse(definition, data) ==
    LET walked == for_field(definition.fields, 1, data, 0, {})
        calculated_checksum == xor_checksum(data, 1)
        checked == definition.checksum_func # None /\ Len(data) > 0
        is_valid == ~checked \/ calculated_checksum = data[Len(data)]
    IN  IF walked.error # None
        THEN [raw_data |-> data, parsed_fields |-> walked.parsed_fields,
              is_valid |-> FALSE, error_msg |-> walked.error]
        ELSE [raw_data |-> data, parsed_fields |-> walked.parsed_fields,
              is_valid |-> is_valid,
              error_msg |-> IF is_valid THEN None
                            ELSE [text |-> "Checksum mismatch",
                                  received |-> data[Len(data)],
                                  calculated |-> calculated_checksum]]

Parse(definition, data) ==
    Call([Engine EXCEPT !.last = [op |-> "parse", definition |-> definition,
                                  data |-> data,
                                  frame |-> parse(definition, data)]])

\* FrameDefinition.__init__ and add_field (lines 190-212), and the
\* definitions parsed
\* with: header, command, ten bytes of data and a checksum byte; the sample
\* of create_sample_frame_definition (lines 326-345) with its XOR checksum;
\* the numeric types; text and float; a short frame with the XOR checksum.
Field(name, field_type, size) == [name |-> name, type |-> field_type,
                                  size |-> size]
Definitions ==
    {[name |-> "Frame",
      fields |-> <<Field("header", "uint8", 1), Field("command", "uint8", 1),
                   Field("data", "bytes", 10), Field("checksum", "uint8", 1)>>,
      checksum_func |-> None],
     [name |-> "Sample Frame",
      fields |-> <<Field("header", "uint8", 1), Field("command", "uint8", 1),
                   Field("data_length", "uint8", 1),
                   Field("data", "bytes", 10), Field("checksum", "uint8", 1)>>,
      checksum_func |-> [name |-> "xor_checksum"]],
     [name |-> "Numbers",
      fields |-> <<Field("a", "uint16", 1), Field("b", "int8", 1),
                   Field("c", "uint32", 1), Field("d", "int16", 1),
                   Field("e", "int32", 1)>>,
      checksum_func |-> None],
     [name |-> "Text",
      fields |-> <<Field("text", "string", 2), Field("f", "float", 1)>>,
      checksum_func |-> None],
     [name |-> "Frame",
      fields |-> <<Field("header", "uint8", 1), Field("value", "uint16", 1),
                   Field("checksum", "uint8", 1)>>,
      checksum_func |-> [name |-> "xor_checksum"]]}

\* The buffers parsed: the first n bytes of two series of bytes, and of the
\* second also those that end in their XOR checksum.
Buffers ==
    LET low(n) == [i \in 1..n |-> (7 * i) % 128]
        high(n) == [i \in 1..n |-> 255 - i]
    IN  {low(n) : n \in 0..MaxBuffer} \cup {high(n) : n \in 0..MaxBuffer}
        \cup {Append(high(n), xor_checksum(Append(high(n), 0), 1)) :
                n \in 0..(MaxBuffer - 1)}

\* One buffer is parsed with one definition.
FrameNext ==
    /\ last = Nothing
    /\ \E definition \in Definitions, data \in Buffers :
        Parse(definition, data)

FrameSpec == Init /\ [][FrameNext]_vars

\* CustomFrameAnalyzer (lines 297-322): add_definition, remove_definition
\* and parse_frame, which gives None for a name that is not registered.
add_definition(es, definition) ==
    [es EXCEPT !.frame_definitions = Put(@, definition.name, definition),
               !.last = [op |-> "add_definition", name |-> definition.name]]

remove_definition(es, name) ==
    [es EXCEPT !.frame_definitions = IF HasKey(@, name) THEN Del(@, name)
                                     ELSE @,
               !.last = [op |-> "remove_definition", name |-> name]]

\* `again` says that the call before was parse_frame with the same bytes
\* and name, `before` is what that call returned.
custom_parse_frame_consumes_definition(es, data, definition_name) ==
    LET again == /\ es.last.op = "custom_parse_frame"
                 /\ es.last.data = data
                 /\ es.last.name = definition_name
    IN  [es EXCEPT !.frame_definitions = Del(@, definition_name),
                   !.last =
            [op |-> "custom_parse_frame", data |-> data,
             name |-> definition_name,
             frame |-> IF ~HasKey(es.frame_definitions, definition_name)
                       THEN None
                       ELSE parse(Get(es.frame_definitions, definition_name),
                                  data),
             again |-> again,
             before |-> IF again THEN es.last.frame ELSE None]]
custom_parse_frame(es, data, definition_name) ==
    LET again == /\ es.last.op = "custom_parse_frame"
                 /\ es.last.data = data
                 /\ es.last.name = definition_name
    IN  [es EXCEPT !.last =
            [op |-> "custom_parse_frame", data |-> data,
             name |-> definition_name,
             frame |-> IF ~HasKey(es.frame_definitions, definition_name)
                       THEN None
                       ELSE parse(Get(es.frame_definitions, definition_name),
                                  data),
             again |-> again,
             before |-> IF again THEN es.last.frame ELSE None]]

AddDefinition(definition) == Call(add_definition(Engine, definition))
RemoveDefinition(name) == Call(remove_definition(Engine, name))
CustomParseFrame(data, name) == Call(custom_parse_frame(Engine, data, name))

\* Definitions are added and removed by name and buffers parsed by name,
\* also by a name that no definition has.
AnalyzerNext ==
    \/ \E definition \in Definitions : AddDefinition(definition)
    \/ \E definition \in Definitions : RemoveDefinition(definition.name)
    \/ \E definition \in Definitions, data \in Buffers :
        CustomParseFrame(data, definition.name)
    \/ \E data \in Buffers : CustomParseFrame(data, "Unknown")

AnalyzerSpec == Init /\ [][AnalyzerNext]_vars

\* Rules taken back while their timers are armed: delayed rules are added
\* and removed, the device sends AT, the timers fire.
CancelNext ==
    \/ \E name \in TxData :
        AddAutoResponseRule(AutoResponseRule(name, AT, name, "exact", 100))
    \/ \E name \in TxData : RemoveAutoResponseRule(name)
    \/ \E c \in DOMAIN conns : Connect(c)
    \/ \E w \in DOMAIN workers : Reader(w, {AT})
    \/ Deliver
    \/ \E k \in DOMAIN timers : TimerShot(k)

CancelSpec == Init /\ [][CancelNext]_vars

\* The main window with one rule that answers AT at once: the user connects
\* to COM1, disconnects and connects again, a recording is started, the
\* device sends AT.
CycleInit ==
    /\ Quiet
    /\ Fresh
    /\ auto_response_rules = <<AutoResponseRule("a", AT, "a", "exact", 0)>>
    /\ connections = {}
    /\ conns = <<>>
    /\ window = [current_connection |-> NoConn, config |-> IdleTask.config,
                 wired |-> {}]
    /\ createres = NoCreate

CycleNext ==
    \/ OnConnectDisconnectClicked(SerialConfig("COM1", "9600"))
    \/ DisconnectWait
    \/ \E w \in DOMAIN workers : Reader(w, {AT})
    \/ \E w \in DOMAIN workers : WorkerCleanup(w)
    \/ \E w \in DOMAIN workers : WorkerKilled(w)
    \/ Deliver
    \/ current_recording.none /\ StartRecording("s")

CycleSpec == CycleInit /\ [][CycleNext]_vars

\* Recordings started one after the other: a session is started, also while
\* one is active, and stopped, the device sends the payload b.
RestartNext ==
    \/ \E name \in {"s", "t"} : StartRecording(name)
    \/ StopRecording
    \/ \E c \in DOMAIN conns : Connect(c)
    \/ \E w \in DOMAIN workers : Reader(w, {"b"})
    \/ Len(current_recording.records) < MaxRecords /\ Deliver

RestartSpec == Init /\ [][RestartNext]_vars

\* ---- properties -----------------------------------------------------------
WorkersOf(c) == {w \in DOMAIN workers : workers[w].conn = c}
Unfinished(c) == {w \in WorkersOf(c) : isRunning(w)}
Pending(w) == \E i \in DOMAIN queue : queue[i].w = w
Latest(c) == CHOOSE w \in WorkersOf(c) : \A v \in WorkersOf(c) : v <= w
Reading(w) == workers[w].pc \in {"check", "poll", "emit"} /\ workers[w].is_open

\* C1: at most one reader thread that has not finished exists at any time
\* for a SerialConnection.
C1_OneReaderPerConnection ==
    \A c \in DOMAIN conns : Cardinality(Unfinished(c)) <= 1

\* C2: between GUI-thread operations, once the reader started by the latest
\* connect() has tried to open the port and its queued notifications have
\* been delivered, is_connected is true exactly when that reader is running
\* with the port open.
C2_ConnectedIffReaderRunning ==
    \A c \in DOMAIN conns :
        (MainIdle /\ WorkersOf(c) # {} /\ workers[Latest(c)].pc # "start"
                  /\ ~Pending(Latest(c)))
            => (conns[c].is_connected <=> Reading(Latest(c)))

\* C3: when the port cannot be opened, connect() has reported failure, has
\* emitted no connected notification and the connection is not connected.
C3_FailedOpenIsReported ==
    \A w \in DOMAIN workers :
        workers[w].end = "open_failed"
            => /\ ~workers[w].ret
               /\ ~workers[w].announced
               /\ conns[workers[w].conn].worker = w
                    => ~conns[workers[w].conn].is_connected

\* C4: a reader whose loop ended on an error of any kind has emitted an error
\* notification and closed the port, and once its notifications have been
\* delivered the connection has been told of the loss and is not connected.
C4_LoopErrorClosesConnection ==
    \A w \in DOMAIN workers :
        (/\ workers[w].end \in {"serial_error", "other_error"}
         /\ workers[w].pc = "finished"
         /\ ~Pending(w)
         /\ conns[workers[w].conn].worker = w)
            => /\ workers[w].error_emitted
               /\ ~workers[w].is_open
               /\ workers[w].lost
               /\ ~conns[workers[w].conn].is_connected

\* C5: a send_data call never raises; it returns true, and emits data_sent,
\* exactly when the write succeeded, the event carrying the bytes written;
\* when the connection is not connected or the port is not open at the write
\* it returns false, writes nothing and emits nothing.
C5_SendOnlyWhenOpen ==
    \A k \in Callers :
        main[k].pc = "returned"
            => /\ ~sendres.raised
               /\ sendres.ret <=> sendres.wrote # ""
               /\ sendres.emitted = sendres.wrote
               /\ sendres.wrote \in {"", main[k].data}
               /\ (~sendres.connected \/ ~sendres.open)
                    => (~sendres.ret /\ sendres.wrote = "" /\ sendres.emitted = "")

\* C5 witness: the reader closed the port between the is_open test and the
\* write; the call returned false with an error notification.
C5_Witness ==
    \E k \in Callers :
        /\ main[k].pc = "returned"
        /\ sendres.connected /\ ~sendres.open /\ sendres.error /\ ~sendres.ret

\* C6: no two writes are in progress at the same time, whoever calls.
C6_WritesSerialized ==
    Cardinality({k \in Callers : main[k].pc = "writing"}) <= 1

\* C6 witness: a write is in progress while the reader is in its poll loop.
C6_Witness ==
    \E k \in Callers :
        /\ main[k].pc = "writing"
        /\ workers[main[k].w].pc = "poll"

\* C7: when disconnect() gave up waiting for the reader, the port handle is
\* released and a diagnostic has been reported.
C7_TimeoutReleasesHandle ==
    \A w \in DOMAIN workers :
        (MainIdle /\ workers[w].terminate)
            => (~workers[w].is_open /\ workers[w].diagnostic)

\* C8: the payloads delivered to a subscriber are the chunks in the order the
\* device handed them out, none missing, none twice.
C8_DeliveredInReadOrder ==
    \A i \in DOMAIN delivered : delivered[i][2] = i

\* C9: the registry holds at most one connection per port, and
\* create_connection for a port it holds returns the connection held and
\* leaves it in the registry.
C9_OneConnectionPerPort ==
    /\ \A e1 \in connections, e2 \in connections : e1[1] = e2[1] => e1 = e2
    /\ \A e \in connections : conns[e[2]].config.port = e[1]
    /\ createres.existing # NoConn
        => (createres.ret = createres.existing /\ createres.after = createres.existing)

\* C9 witness: create_connection was called with another configuration for a
\* port the registry holds and returned the connection held.
C9_Witness ==
    /\ createres.existing # NoConn
    /\ createres.ret = createres.existing
    /\ conns[createres.ret].config # createres.config
    /\ Cardinality(connections) = 2

\* C10: the reader of the main window's current connection has the port open
\* with the configuration last handed to create_connection.
C10_ReopenedWithNewConfig ==
    \A w \in DOMAIN workers :
        (/\ window.current_connection # NoConn
         /\ conns[window.current_connection].worker = w
         /\ workers[w].is_open)
            => workers[w].config = window.config

\* C11: a reader thread is started only by a connect() call made on a
\* connection that is not connected, never by the delivery of a notification
\* or by a reader thread, and a reader opens its port only once, when it
\* starts: after a failure or a close nothing reopens the port.
C11_NoAutoReconnect ==
    [][/\ \A w \in DOMAIN workers' :
            w \notin DOMAIN workers
                => /\ ~conns[workers'[w].conn].is_connected
                   /\ conns'[workers'[w].conn].worker = w
                   /\ queue' = queue
                   /\ \A v \in DOMAIN workers : workers'[v].pc = workers[v].pc
       /\ \A w \in DOMAIN workers :
            (workers'[w].is_open /\ ~workers[w].is_open)
                => workers[w].pc = "start"]_vars

\* C11 witness: the reader failed, the loss has been delivered, and the
\* connection rests unconnected with no other reader.
C11_Witness ==
    /\ MainIdle
    /\ queue = <<>>
    /\ Len(workers) = 1
    /\ workers[1].lost
    /\ workers[1].pc = "finished"
    /\ ~conns[1].is_connected

\* C12: after check_auto_response has run on a payload, every rule of the
\* list that is enabled and matches the payload has been counted once more
\* and has had exactly one response issued, sent at once with its own bytes
\* when it has no delay and handed to a timer when it has one; every other
\* rule has its count unchanged and nothing issued.
C12_AllRulesEvaluated ==
    last.op = "check_auto_response"
        => /\ DOMAIN last.before = DOMAIN auto_response_rules
           /\ \A i \in DOMAIN auto_response_rules :
                LET rule == auto_response_rules[i]
                    mine == {j \in DOMAIN last.issued : last.issued[j].rule = i}
                IN  IF matches(rule, last.data)
                    THEN /\ rule.match_count = last.before[i] + 1
                         /\ Cardinality(mine) = 1
                         /\ \A j \in mine :
                                IF rule.delay_ms > 0
                                THEN last.issued[j].how = "timer"
                                ELSE /\ last.issued[j].how = "send"
                                     /\ last.issued[j].bytes = rule.response
                    ELSE /\ rule.match_count = last.before[i]
                         /\ mine = {}

\* C12 witness: one payload matched the first rule of the list and another
\* rule after it, one answered at once and one through a timer.
C12_Witness ==
    /\ last.op = "check_auto_response"
    /\ Len(last.issued) = 2
    /\ last.issued[1].rule = 1
    /\ last.issued[1].how # last.issued[2].how

\* C13: the bytes a delayed response hands to send_data when its timer fires
\* are the response of the rule whose match armed the timer.
C13_DelayedResponseIsOwn ==
    last.op = "timer" => last.bytes = last.own

\* C15: a rule whose regex does not compile is a rule that does not match:
\* check_auto_response leaves its count alone and issues nothing for it,
\* and every rule before and after it in the list that matches the payload
\* is counted and answered all the same.
C15_MalformedRegexIsNonMatch ==
    last.op = "check_auto_response"
        => \A i \in DOMAIN auto_response_rules :
            LET rule == auto_response_rules[i]
                answered(k) == \E j \in DOMAIN last.issued :
                                  last.issued[j].rule = k
            IN  (rule.pattern_type = "regex" /\ re_error(rule.pattern))
                    => /\ rule.match_count = last.before[i]
                       /\ ~answered(i)
                       /\ \A k \in DOMAIN auto_response_rules \ {i} :
                            matches(auto_response_rules[k], last.data)
                                => /\ answered(k)
                                   /\ auto_response_rules[k].match_count
                                        = last.before[k] + 1

\* C15 witness: the first rule is enabled and its regex does not compile,
\* and the rule after it matched the payload and was answered.
C15_Witness ==
    /\ last.op = "check_auto_response"
    /\ Len(auto_response_rules) >= 2
    /\ auto_response_rules[1].enabled
    /\ auto_response_rules[1].pattern_type = "regex"
    /\ re_error(auto_response_rules[1].pattern)
    /\ Len(last.issued) = 1
    /\ last.issued[1].rule = 2

\* A sequence is a prefix, a suffix or a contiguous part of another.
Heads(d) == {SubSeq(d, 1, i) : i \in 0..Len(d)}
Tails(d) == {SubSeq(d, i, Len(d)) : i \in 1..(Len(d) + 1)}
IsPrefix(p, d) == \E t \in Tails(d) : d = p \o t
IsSuffix(p, d) == \E h \in Heads(d) : d = h \o p
IsPart(p, d) == \E h \in Heads(d), t \in Tails(d) : d = h \o p \o t

\* The rule fired in the latest check_auto_response: counted once and
\* answered once.
Fired(i) ==
    /\ auto_response_rules[i].match_count = last.before[i] + 1
    /\ Cardinality({j \in DOMAIN last.issued : last.issued[j].rule = i}) = 1
Unmoved(i) ==
    /\ auto_response_rules[i].match_count = last.before[i]
    /\ \A j \in DOMAIN last.issued : last.issued[j].rule # i

\* C14: an enabled rule fires on a payload exactly when the payload stands
\* in the relation its kind declares to the pattern: equal for exact, the
\* pattern a contiguous part of it for contains, a prefix for starts_with,
\* a suffix for ends_with; otherwise it stays as it was.  An exact rule for
\* AT CR LF fires once on AT CR LF and not on AT CR LF X.
C14_MatchFollowsKind ==
    last.op = "check_auto_response"
        => \A i \in DOMAIN auto_response_rules :
            LET rule == auto_response_rules[i]
                kind == rule.pattern_type
                related ==
                    CASE kind = "exact" -> last.data = rule.pattern
                      [] kind = "contains" -> IsPart(rule.pattern, last.data)
                      [] kind = "starts_with" -> IsPrefix(rule.pattern, last.data)
                      [] kind = "ends_with" -> IsSuffix(rule.pattern, last.data)
            IN  /\ (rule.enabled /\ kind \in {"exact", "contains", "starts_with",
                                               "ends_with"})
                    => IF related THEN Fired(i) ELSE Unmoved(i)
                /\ (rule.enabled /\ kind = "exact" /\ rule.pattern = AT)
                    => /\ last.data = AT => Fired(i)
                       /\ last.data = ATX => Unmoved(i)

\* C14 witness: an exact rule for AT CR LF has been run on AT CR LF X, after
\* having fired once on AT CR LF.
C14_Witness ==
    /\ last.op = "check_auto_response"
    /\ last.data = ATX
    /\ auto_response_rules[1].pattern_type = "exact"
    /\ auto_response_rules[1].pattern = AT
    /\ auto_response_rules[1].match_count = 1
    /\ last.before[1] = 1

\* C16: no two rules of the engine share a name and no two scheduled tasks
\* share a name.
C16_NamesUnique ==
    /\ \A i, j \in DOMAIN auto_response_rules :
        auto_response_rules[i].name = auto_response_rules[j].name => i = j
    /\ \A i, j \in DOMAIN scheduled_tasks :
        scheduled_tasks[i].name = scheduled_tasks[j].name => i = j

\* C17: every run of send_task_data of a task with repeat = N > 0 that
\* counts toward N has written its payload to the port, so that a task that
\* has stopped has written N payloads.
C17_ExactlyNWritten ==
    (last.op = "send_task_data" /\ last.repeat > 0 /\ last.counted)
        => last.wrote

\* C18: a task with repeat > 0 never has sent_count above repeat, and once
\* sent_count has reached repeat the task is disabled and its timer
\* stopped, so that its callback runs no more.
C18_SelfDisableAtomic ==
    \A i \in DOMAIN scheduled_tasks :
        LET task == scheduled_tasks[i]
        IN  task.repeat > 0
                => /\ task.sent_count <= task.repeat
                   /\ task.sent_count >= task.repeat
                        => (~task.enabled /\ task.timer # "active")

\* C18 witness: a task with repeat 2 has reached its count in a run of its
\* callback that was suspended in an error dialog, and is stopped.
C18_Witness ==
    /\ last.op = "send_task_data"
    /\ last.counted /\ ~last.wrote
    /\ \E i \in DOMAIN scheduled_tasks :
        /\ scheduled_tasks[i].name = last.name
        /\ scheduled_tasks[i].repeat = 2
        /\ scheduled_tasks[i].sent_count = 2
        /\ scheduled_tasks[i].timer = "stopped"
    /\ \E w \in DOMAIN workers : workers[w].is_open

\* C19: when remove_scheduled_task(name) has returned, no task of that name
\* is left in the list with a timer to send for it.
C19_RemovedTaskIsGone ==
    last.op = "remove_scheduled_task"
        => \A i \in DOMAIN scheduled_tasks :
            scheduled_tasks[i].name # last.name

\* C20: in the session being recorded the first record has elapsed_ms 0,
\* no record has a negative elapsed_ms, and elapsed_ms does not decrease
\* from one record to the next.
C20_ElapsedMonotone ==
    LET records == current_recording.records
    IN  /\ records # <<>> => records[1].elapsed_ms = 0
        /\ \A i \in DOMAIN records : records[i].elapsed_ms >= 0
        /\ \A i \in 1..(Len(records) - 1) :
            records[i].elapsed_ms <= records[i + 1].elapsed_ms

\* C21: a stop_recording step with a session active saves that session under
\* its name, in place of what was saved under the name, and leaves no
\* session active; with none active it changes nothing.  While no session
\* is active no step changes a saved session or records anything, and a
\* saved session changes only by being replaced at a stop.
C21_StopArchivesAndClears ==
    [][LET active == current_recording
           archived == Put(saved_recordings, active.name, active)
       IN  /\ (last'.op = "stop_recording" /\ last' # last)
                => /\ current_recording' = NoRecording
                   /\ saved_recordings' =
                        IF active.none THEN saved_recordings ELSE archived
           /\ active.none
                => /\ saved_recordings' = saved_recordings
                   /\ current_recording' \in {NoRecording, RecordSession("s")}
           /\ saved_recordings' # saved_recordings
                => (saved_recordings' = archived /\ current_recording'.none)
      ]_vars

\* C21 witness: session "s" with two records is saved, no session is
\* active, and a payload has been received since that was not recorded.
C21_Witness ==
    /\ current_recording.none
    /\ HasKey(saved_recordings, "s")
    /\ Len(Get(saved_recordings, "s").records) = 2
    /\ last.op = "check_auto_response"

\* The timers the latest replay_recording call has added, and the records
\* of the session it replayed that are TX records, in their order.
Scheduled == SubSeq(timers, last.before + 1, Len(timers))
TXs == {i \in DOMAIN last.recording.records :
           last.recording.records[i].direction = "TX"}
TX(k) == last.recording.records[
             CHOOSE i \in TXs : Cardinality({j \in TXs : j <= i}) = k]

\* C22: a replay_recording call at a positive speed adds one timer for each
\* TX record of the saved session and none for an RX record; the k-th timer
\* carries the bytes of the k-th TX record and has the delay elapsed_ms /
\* speed in whole milliseconds, so the delays do not decrease from a timer
\* to the next; the saved session is as it was.
C22_ReplaySchedulesEachTX ==
    (last.op = "replay_recording" /\ last.speed > 0 /\ ~last.script_error)
        => /\ Len(Scheduled) = Cardinality(TXs)
           /\ \A k \in DOMAIN Scheduled :
                /\ Scheduled[k].rule = TX(k).data
                /\ Scheduled[k].delay_ms * last.speed <= 2 * TX(k).elapsed_ms
                /\ 2 * TX(k).elapsed_ms
                        < (Scheduled[k].delay_ms + 1) * last.speed
                /\ k > 1 => Scheduled[k - 1].delay_ms <= Scheduled[k].delay_ms
           /\ ~last.raised
           /\ Get(saved_recordings, last.name) = last.recording

\* C22 witness: a session of an RX and a TX record, recorded 1 ms after the
\* anchor, has been replayed at speed 1.0: one timer, delay 1 ms.
C22_Witness ==
    /\ last.op = "replay_recording" /\ last.speed = 2
    /\ Len(last.recording.records) = 2
    /\ Cardinality(TXs) = 1
    /\ Len(timers) = 1
    /\ timers[1].delay_ms = 1

\* C23: a replay_recording call with a speed of zero or below is turned down
\* with an error and adds no timer.
C23_NonPositiveSpeedRejected ==
    (last.op = "replay_recording" /\ last.speed <= 0)
        => /\ last.raised \/ last.script_error
           /\ Scheduled = <<>>

\* The gap between the delays of the timers k - 1 and k of the latest
\* replay, and the gap between the elapsed_ms of their records.
ReplayGap(k) == Scheduled[k].delay_ms - Scheduled[k - 1].delay_ms
RecordedGap(k) == TX(k).elapsed_ms - TX(k - 1).elapsed_ms

\* C24 as stated: between two consecutive TX records the gap of the replay
\* delays is the recorded gap at speed 1.0 and exactly half of it at 2.0.
C24_GapsScaleExactly ==
    (last.op = "replay_recording" /\ ~last.script_error)
        => \A k \in 2..Len(Scheduled) :
            /\ last.speed = 2 => ReplayGap(k) = RecordedGap(k)
            /\ last.speed = 4 => 2 * ReplayGap(k) = RecordedGap(k)

\* C24 amended: at speed 1.0 the gap of the replay delays is the recorded
\* gap; at speed 2.0 each delay is half the elapsed_ms cut to whole
\* milliseconds, so twice the replay gap is within 1 ms of the recorded gap.
C24_GapsScaleInWholeMs ==
    (last.op = "replay_recording" /\ ~last.script_error)
        => \A k \in 2..Len(Scheduled) :
            /\ last.speed = 2 => ReplayGap(k) = RecordedGap(k)
            /\ last.speed = 4
                => /\ 2 * ReplayGap(k) >= RecordedGap(k) - 1
                   /\ 2 * ReplayGap(k) <= RecordedGap(k) + 1
                   /\ 2 * Scheduled[k].delay_ms <= TX(k).elapsed_ms
                   /\ TX(k).elapsed_ms <= 2 * Scheduled[k].delay_ms + 1

\* C24 witness: two TX records 1 ms apart have been replayed at speed 2.0.
C24_Witness ==
    /\ last.op = "replay_recording" /\ last.speed = 4
    /\ Len(Scheduled) = 2
    /\ RecordedGap(2) = 1
    /\ ReplayGap(2) = 0

\* C25: parse_frame returns None exactly for buffers of fewer than 4 bytes;
\* for any other buffer the frame has slave_id = byte 0, function_code =
\* byte 1, data = the bytes between these and the last two, and crc = the
\* last two bytes read low byte first.
C25_ParseFrameLayout ==
    last.op = "parse_frame"
        => LET data == last.data
               n == Len(data)
           IN  /\ last.frame = None <=> n < 4
               /\ n >= 4
                    => /\ last.frame.slave_id = data[1]
                       /\ last.frame.function_code = data[2]
                       /\ last.frame.data = SubSeq(data, 3, n - 2)
                       /\ last.frame.crc = data[n - 1] + 256 * data[n]

\* C25 witness: a buffer of 3 bytes gave None, or one of exactly 4 bytes a
\* frame with no data; here the latter.
C25_Witness ==
    /\ last.op = "parse_frame"
    /\ Len(last.data) = 4
    /\ last.frame # None
    /\ last.frame.data = <<>>

\* C26: a frame is valid exactly when the check computed over all bytes but
\* the last two is the received one; a frame that is not valid is returned
\* all the same, with a mismatch message, and with the slave_id,
\* function_code and data of the buffer that has the right check bytes;
\* 01 03 00 00 00 0A C5 CE is not valid, of unit 1, function 3 and payload
\* 00 00 00 0A.
C26_InvalidFrameIsReturned ==
    (last.op = "parse_frame" /\ Len(last.data) >= 4)
        => LET body == SubSeq(last.data, 1, Len(last.data) - 2)
               right == parse_frame(Checked(body))
               frame == last.frame
           IN  /\ frame # None
               /\ frame.is_valid <=> last.data = Checked(body)
               /\ frame.is_valid <=> frame.error_msg = None
               /\ ~frame.is_valid
                    => /\ frame.error_msg.text = "CRC mismatch"
                       /\ frame.error_msg.received = frame.crc
                       /\ frame.error_msg.received
                            # frame.error_msg.calculated
               /\ right.is_valid
               /\ frame.slave_id = right.slave_id
               /\ frame.function_code = right.function_code
               /\ frame.data = right.data
               /\ last.data = Request \o <<197, 206>>
                    => /\ ~frame.is_valid
                       /\ frame.slave_id = 1 /\ frame.function_code = 3
                       /\ frame.data = <<0, 0, 0, 10>>

\* C26 witness: 01 03 00 00 00 0A C5 CE has been parsed.
C26_Witness ==
    /\ last.op = "parse_frame"
    /\ last.data = Request \o <<197, 206>>
    /\ last.frame # None
    /\ ~last.frame.is_valid

\* C27: calculate_crc gives a value in 0..0xFFFF for every buffer; the value
\* is that of the register algorithm: appended to the buffer low byte
\* first, it brings the register to 0, and for 01 03 00 00 00 0A it is
\* 0xCDC5, so that 01 03 00 00 00 0A C5 CD is a valid frame.
C27_CrcRegister ==
    last.op = "parse_frame"
        => /\ calculate_crc(last.data) \in 0..65535
           /\ calculate_crc(Checked(last.data)) = 0
           /\ calculate_crc(<<>>) = 65535
           /\ calculate_crc(<<1>>) = 32894
           /\ calculate_crc(Request) = 52677
           /\ last.data = Request \o <<197, 205>>
                => (last.frame.is_valid /\ last.frame.crc = 52677)

\* C27 witness: 01 03 00 00 00 0A C5 CD has been parsed.
C27_Witness ==
    /\ last.op = "parse_frame"
    /\ last.data = Request \o <<197, 205>>
    /\ last.frame.is_valid

\* C28: for function 3 analyze_frame gives, for a payload of 4 bytes, the
\* request with start_address and quantity read high byte first; for any
\* other payload the response: the error "Byte count mismatch" when the
\* first byte is not the number of bytes after it, and else byte_count and
\* byte_count / 2 registers, each read high byte first from the next two
\* bytes.  A payload of no bytes has no byte count and gives an error.
C28_ReadHoldingRegisters ==
    (last.op = "analyze_frame" /\ last.frame.function_code = 3)
        => LET p == last.frame.data
               details == last.result.details
           IN  IF Len(p) = 4
               THEN details = [type |-> "Read Holding Registers Request",
                               start_address |-> 256 * p[1] + p[2],
                               quantity |-> 256 * p[3] + p[4]]
               ELSE IF Len(p) = 0 THEN "error" \in DOMAIN details
               ELSE IF p[1] # Len(p) - 1
               THEN details = [error |-> "Byte count mismatch"]
               ELSE /\ details.type = "Read Holding Registers Response"
                    /\ details.byte_count = p[1]
                    /\ Len(details.registers) = p[1] \div 2
                    /\ \A k \in DOMAIN details.registers :
                        details.registers[k] = 256 * p[2 * k] + p[2 * k + 1]

\* C28 witness: a response of one register, byte count 2, has been decoded.
C28_Witness ==
    /\ last.op = "analyze_frame"
    /\ last.frame.function_code = 3
    /\ last.frame.data = <<2, 1, 255>>
    /\ "registers" \in DOMAIN last.result.details
    /\ last.result.details.registers = <<511>>

\* C29: for function 6 analyze_frame gives address and value, read high
\* byte first, for a payload of exactly 4 bytes and a length error for a
\* payload of any other length.
C29_WriteSingleRegisterLength ==
    (last.op = "analyze_frame" /\ last.frame.function_code = 6)
        => LET p == last.frame.data
               details == last.result.details
           IN  IF Len(p) = 4
               THEN details = [type |-> "Write Single Register Request",
                               address |-> 256 * p[1] + p[2],
                               value |-> 256 * p[3] + p[4]]
               ELSE "error" \in DOMAIN details

\* The width of a field and the offset of field i of a list of fields.
Width(field) ==
    CASE field.type \in {"uint8", "int8"} -> 1
      [] field.type \in {"uint16", "int16"} -> 2
      [] field.type \in {"bytes", "string"} -> field.size
      [] OTHER -> 4
RECURSIVE Offset(_, _)
Offset(fields, i) ==
    IF i = 1 THEN 0 ELSE Offset(fields, i - 1) + Width(fields[i - 1])

\* C30: when the bytes left are fewer than the width of a field, parse gives
\* is_valid = false and an error that names the first such field, and the
\* result has exactly the fields before that one, each of its full width.
C30_ShortInputNamesField ==
    last.op = "parse"
        => LET fields == last.definition.fields
               short == {i \in DOMAIN fields :
                            Offset(fields, i) + Width(fields[i])
                                > Len(last.data)}
               first == CHOOSE i \in short : \A j \in short : i <= j
               frame == last.frame
           IN  short # {}
                => /\ ~frame.is_valid
                   /\ frame.error_msg # None
                   /\ frame.error_msg.text = "Not enough data for field"
                   /\ frame.error_msg.field = fields[first].name
                   /\ {e[1] : e \in frame.parsed_fields}
                        = {fields[j].name : j \in 1..(first - 1)}
                   /\ \A j \in 1..(first - 1) :
                        fields[j].type = "bytes"
                            => Len(Get(frame.parsed_fields, fields[j].name))
                                = fields[j].size

\* The XOR of the bytes of a buffer.
RECURSIVE XorOf(_)
XorOf(b) == IF b = <<>> THEN 0 ELSE xor(b[1], XorOf(Tail(b)))

C32_AmbiguityFlagged ==
    (/\ last.op = "analyze_frame"
     /\ last.frame.function_code = 3
     /\ Len(last.frame.data) = 4
     /\ last.frame.data[1] = Len(last.frame.data) - 1)
        => /\ last.result.details
                # parse_read_holding_registers_request(last.frame)
           /\ last.result.details
                # parse_read_holding_registers_response(last.frame)

\* C33: parse_frame with the same bytes and the same name as the call
\* before it returns the same frame (fields, validity and error) as that
\* call; for a name that is registered the frame is the parse by the
\* definition last added under it, and for a name that is not registered,
\* never added or removed, it returns None.
C33_ParseIdempotent ==
    last.op = "custom_parse_frame"
        => /\ last.again => last.frame = last.before
           /\ ~HasKey(frame_definitions, last.name) <=> last.frame = None
           /\ \A e \in frame_definitions :
                /\ e[2] \in Definitions
                /\ e[1] = e[2].name
                /\ e[1] = last.name => last.frame = parse(e[2], last.data)

\* C33 witness: a buffer whose checksum fails was parsed twice in a row by
\* a registered definition.
C33_Witness ==
    /\ last.op = "custom_parse_frame"
    /\ last.again
    /\ last.before # None
    /\ last.before.error_msg # None
    /\ last.before.error_msg.text = "Checksum mismatch"
    /\ last.before.parsed_fields # {}

\* C34: a timer callback acts only for a rule or task that is still in
\* force.  When the single-shot timer of a delayed response fires and no
\* enabled rule with that response is in the list any more, nothing is
\* written; a task that is disabled keeps its sent_count, and a tick of it
\* does not call send_data.
C34_CallbacksCheckState ==
    [][/\ (/\ last'.op = "timer"
            /\ Len(timers') < Len(timers)
            /\ \A i \in DOMAIN auto_response_rules :
                    \/ ~auto_response_rules[i].enabled
                    \/ auto_response_rules[i].response # last'.own)
            => ~last'.wrote
       /\ \A i \in DOMAIN scheduled_tasks, j \in DOMAIN scheduled_tasks' :
            (/\ ~scheduled_tasks[i].enabled
             /\ scheduled_tasks'[j].id = scheduled_tasks[i].id)
                => /\ scheduled_tasks'[j].sent_count
                        = scheduled_tasks[i].sent_count
                   /\ (/\ last' # last
                        /\ last'.op = "send_task_data"
                        /\ last'.name = scheduled_tasks[i].name
                        /\ \A k \in DOMAIN scheduled_tasks :
                                scheduled_tasks[k].name
                                    = scheduled_tasks[i].name => k = i)
                            => ~last'.sent]_vars

\* The records of a session with the direction given.
Recorded(session, direction) ==
    SelectSeq(session.records, LAMBDA r : r.direction = direction)

\* C35: the delivery of one received chunk runs the rules once and records
\* the chunk once, however often the port was connected before: the
\* match_count of a rule that matches grows by one, one response is sent
\* and, while a recording is active, one RX record and the one TX record
\* of the response are added.
C35_ChunkProcessedOnce ==
    [][(/\ delivered' # delivered
        /\ window.current_connection # NoConn)
        => /\ \A i \in DOMAIN auto_response_rules :
                auto_response_rules'[i].match_count
                    = auto_response_rules[i].match_count
                        + (IF matches(auto_response_rules[i],
                                      Head(queue).data) THEN 1 ELSE 0)
           /\ last'.op = "check_auto_response"
           /\ Len(last'.issued)
                = Cardinality({i \in DOMAIN auto_response_rules :
                    matches(auto_response_rules[i], Head(queue).data)})
           /\ ~current_recording.none
                => /\ Len(Recorded(current_recording', "RX"))
                        = Len(Recorded(current_recording, "RX")) + 1
                   /\ Len(Recorded(current_recording', "TX"))
                        <= Len(Recorded(current_recording, "TX"))
                            + Len(last'.issued)]_vars

\* C36: a notification of a reader (data, error or connection_lost) is
\* handed to the subscribers only while that reader is the worker of its
\* connection and the connection is connected: not after disconnect() has
\* returned, and not when a later connect() has put another reader in its
\* place.
C36_NothingAfterDisconnect ==
    [][(queue # <<>> /\ queue' = Tail(queue))
        => LET w == Head(queue).w
               c == workers[w].conn
           IN  /\ conns[c].worker = w
               /\ conns[c].is_connected]_vars

\* C37: `connected` and `disconnected` alternate on a connection, beginning
\* with `connected`: the number of `connected` emitted is the number of
\* `disconnected` emitted, or one more.
C37_LifecycleBalanced ==
    \A c \in DOMAIN conns : conns[c].balance \in {0, 1}

\* C38: while a recording is active, the delivery of a received chunk
\* appends the RX record of the chunk before the TX record of any response
\* sent for it: the first record the delivery adds is the RX record.
C38_RxRecordedBeforeResponse ==
    [][(/\ delivered' # delivered
        /\ ~current_recording.none
        /\ Len(current_recording'.records) > Len(current_recording.records))
        => current_recording'.records[Len(current_recording.records) + 1]
                .direction = "RX"]_vars

\* C39: the rules are run on received chunks only, and once for each: a step
\* that delivers no chunk, such as a send by a response, a task or a replay,
\* leaves every match_count as it is, and the delivery of one chunk counts,
\* and so answers, at most one match for each rule.
C39_RulesRunOnRxOnly ==
    [][Len(auto_response_rules') = Len(auto_response_rules)
        => \A i \in DOMAIN auto_response_rules :
            /\ delivered' = delivered
                => auto_response_rules'[i].match_count
                        = auto_response_rules[i].match_count
            /\ auto_response_rules'[i].match_count
                    <= auto_response_rules[i].match_count + 1]_vars

\* C40: when start_recording puts a new session in the place of an active
\* one that has records, that session, with its records, is in
\* saved_recordings afterwards.
C40_StartKeepsActiveSession ==
    [][(/\ ~current_recording.none
        /\ current_recording.records # <<>>
        /\ ~current_recording'.none
        /\ current_recording'.records = <<>>)
        => /\ HasKey(saved_recordings', current_recording.name)
           /\ Get(saved_recordings', current_recording.name)
                = current_recording]_vars

====
